---------------------------- MODULE Spec2Model ----------------------------
(***************************************************************************)
(* A model of proust (terror/proust): the text and vector helpers          *)
(* (chunkText, cosineSimilarity, relevantChunks) and the workspace         *)
(* management screen (App) with its IndexedDB stores.                      *)
(*                                                                         *)
(* JavaScript strings are modelled as sequences of one-character strings,  *)
(* number[] vectors as sequences of integers, and a value that may be      *)
(* `undefined` as a record with the field `defined`.                       *)
(***************************************************************************)
EXTENDS Integers, Sequences, FiniteSets, TLC

(***************************************************************************)
(* Bounds of the model.                                                    *)
(***************************************************************************)
MaxTextLen == 4
MaxChunkSize == 3
MaxEmbeddings == 3
MaxTopK == 3
MaxDim == 2
MaxTime == 3
MaxNotesLen == 3
MaxPages == 7
MaxKey == 3

(***************************************************************************)
(* The helper functions under test are driven by a small harness: the      *)
(* arguments of the call, the position of the call and what it returned.   *)
(***************************************************************************)
VARIABLES
  libArgs,        \* the arguments of the library call under test
  libPc,          \* "idle" | "start" | "awaitEmbed" | "done"
  libResult,      \* what the call returned (or that it threw)
  libEmbedCalls,  \* embedding requests issued by the call
  libReply        \* what the embedding service answered to the call

libVars == <<libArgs, libPc, libResult, libEmbedCalls, libReply>>

(***************************************************************************)
(* The workspace management screen: the React state of App, the three      *)
(* IndexedDB object stores, and the asynchronous flows in flight.          *)
(***************************************************************************)
VARIABLES
  chunks,           \* useState<string[]>([])
  db,               \* useState<IDBPDatabase | undefined>: TRUE once set
  embeddings,       \* useState<number[][]>([])
  fileUrl,          \* useState<string | undefined>: the displayed document
  isLoading,        \* useState(false)
  notes,            \* useState<string>('')
  workspaces,       \* useState<Workspace[]>([])
  workspacesStore,  \* object store 'workspaces': a set of [key, value]
  chunksStore,      \* object store 'chunks'
  embeddingsStore,  \* object store 'embeddings'
  startup,          \* the mount effect: "opening" | "getAll" | "done" | "threw"
  flows,            \* the onFileChange / openWorkspace calls of this session
  now,              \* what new Date() returns
  toast,            \* the notification the last step showed ("" for none)
  event             \* the last step: what ran, on which file, in which call

stateVars == <<chunks, db, embeddings, fileUrl, isLoading, notes, workspaces>>
storeVars == <<workspacesStore, chunksStore, embeddingsStore>>
appVars == <<stateVars, storeVars, startup, flows, now, toast, event>>

(***************************************************************************)
(* The calls of askQuestion, made from the question dialog of the viewer.  *)
(***************************************************************************)
VARIABLES
  ask               \* the askQuestion call of this session, and what it did

askVars == <<ask>>

(***************************************************************************)
(* The document viewer (the Workspace component): the state of its         *)
(* reducer, its file prop and the document loads in flight.                *)
(***************************************************************************)
VARIABLES
  state,            \* useReducer(workspaceReducer, initialState)
  viewerFile,       \* the file prop: the document reference to display
  mounted,          \* whether the component is mounted
  docLoad,          \* the document <Document> is loading ("" for none)
  parsing,          \* the documents whose parseOutline call is pending
  viewerEvent       \* the last step of the viewer: what ran, on which key

viewerVars == <<state, viewerFile, mounted, docLoad, parsing, viewerEvent>>

\* The question dialog of the viewer (question-dialog.tsx).
VARIABLES
  dialog            \* isQuestionDialogOpen, and the dialog's own state

dialogVars == <<dialog>>

widgetVars == <<viewerVars, dialogVars>>

\* The object URLs of the page (URL.createObjectURL, URL.revokeObjectURL).
VARIABLES
  objectUrls        \* how many are unreleased, and the state of the one in fileUrl

urlVars == <<objectUrls>>

\* The note editor (components/editor.tsx).
VARIABLES
  editor            \* whether it is mounted, and the document it holds

editorVars == <<editor>>

\* The state outside the workspace management screen's own.
uiVars == <<askVars, widgetVars, urlVars, editorVars>>

vars == <<libVars, appVars, uiVars>>

(***************************************************************************)
(* JavaScript values.                                                      *)
(***************************************************************************)
Min(a, b) == IF a < b THEN a ELSE b
Max(a, b) == IF a > b THEN a ELSE b

JsUndefined == [defined |-> FALSE]
Defined(v) == [defined |-> TRUE, value |-> v]

\* if (x): arrays and objects are truthy, the empty array too.
Truthy(x) == x.defined

NoResult == [kind |-> "none"]
Returned(v) == [kind |-> "ok", value |-> v]
Thrown(msg) == [kind |-> "error", message |-> msg]

(***************************************************************************)
(* src/lib/utils.ts: chunkText                                             *)
(***************************************************************************)
\* Math.ceil(a / b) for a >= 0, b >= 1
CeilDiv(a, b) == (a + b - 1) \div b

\* String.prototype.slice / Array.prototype.slice(start, end) with
\* 0-based start, exclusive end, negative indices counted from the end and
\* both clamped to the length.
SliceIndex(len, k) == IF k < 0 THEN Max(len + k, 0) ELSE Min(k, len)

Slice(s, start, end) ==
  LET from == SliceIndex(Len(s), start)
      to   == SliceIndex(Len(s), end)
  IN  IF to <= from THEN <<>> ELSE SubSeq(s, from + 1, to)

\* A plausible slip: Math.floor instead of Math.ceil drops the remainder.
ChunkTextFloor(text, chunkSize) ==
  [index \in 1..(Len(text) \div chunkSize) |->
     Slice(text, (index - 1) * chunkSize, index * chunkSize)]

ChunkText(text, chunkSize) ==
  [index \in 1..CeilDiv(Len(text), chunkSize) |->
     Slice(text, (index - 1) * chunkSize, index * chunkSize)]

\* chunkText(text, chunkSize = 1000)
DefaultChunkSize == 1000

(***************************************************************************)
(* src/lib/math.ts: cosineSimilarity                                       *)
(*                                                                         *)
(* The returned number dot / (|a| * |b|) is kept exactly, as the pair      *)
(* (num, denSq) standing for num / sqrt(denSq): the square roots are never *)
(* taken, and two results are compared by cross-multiplying the squares.   *)
(* For the vectors ranked here IEEE doubles order these quotients exactly  *)
(* as the reals do (equal quotients come from equal operands, unequal ones *)
(* differ by far more than one rounding).                                  *)
(***************************************************************************)
RECURSIVE SumSeq(_)
SumSeq(s) == IF s = <<>> THEN 0 ELSE Head(s) + SumSeq(Tail(s))

\* vecA.reduce((sum, a, i) => sum + a * vecB[i], 0)
DotProduct(vecA, vecB) == SumSeq([i \in 1..Len(vecA) |-> vecA[i] * vecB[i]])

\* vec.reduce((sum, a) => sum + a * a, 0): the square of the magnitude
SumOfSquares(vec) == SumSeq([i \in 1..Len(vec) |-> vec[i] * vec[i]])

\* A plausible slip: no zero-magnitude guard, the division yields NaN.
CosineSimilarityUnguarded(vecA, vecB) ==
  IF Len(vecA) # Len(vecB)
    THEN Thrown("Vectors must have the same length")
    ELSE Returned([num   |-> DotProduct(vecA, vecB),
                   denSq |-> SumOfSquares(vecA) * SumOfSquares(vecB)])

CosineSimilarity(vecA, vecB) ==
  IF Len(vecA) # Len(vecB)
    THEN Thrown("Vectors must have the same length")
    ELSE IF SumOfSquares(vecA) = 0 \/ SumOfSquares(vecB) = 0
      THEN Thrown("Cannot calculate cosine similarity for a zero vector")
      ELSE Returned([num   |-> DotProduct(vecA, vecB),
                     denSq |-> SumOfSquares(vecA) * SumOfSquares(vecB)])

(***************************************************************************)
(* src/lib/workspace.ts: relevantChunks                                    *)
(***************************************************************************)
\* What ai.embed resolves to: number[][] or undefined (the request failed).
EmbedFailed == JsUndefined
EmbedOk(vectors) == Defined(vectors)

\* chunks[i] with i past the end of the array is undefined: a text that is
\* no sequence over the alphabet.
UndefinedText == <<"undefined">>

ChunkAt(chunkList, index) ==
  IF index + 1 \in DOMAIN chunkList THEN chunkList[index + 1] ELSE UndefinedText

\* The sign of x - y for two numbers num / sqrt(denSq), denSq > 0.
SignedSquare(n) == IF n < 0 THEN -(n * n) ELSE n * n

SimilarityDiffSign(x, y) ==
  LET l == SignedSquare(x.num) * y.denSq
      r == SignedSquare(y.num) * x.denSq
  IN  IF l > r THEN 1 ELSE IF l < r THEN -1 ELSE 0

\* A plausible slip: a.similarity - b.similarity sorts ascending.
CompareAscending(a, b) == SimilarityDiffSign(a.similarity, b.similarity)

\* (a, b) => b.similarity - a.similarity
CompareSimilarity(a, b) == SimilarityDiffSign(b.similarity, a.similarity)

\* Array.prototype.sort is stable: an item is placed after every item that
\* the comparator does not order after it.
RECURSIVE InsertSorted(_, _)
InsertSorted(sorted, item) ==
  IF sorted = <<>>
    THEN <<item>>
    ELSE LET last == sorted[Len(sorted)]
         IN  IF CompareSimilarity(last, item) > 0
               THEN InsertSorted(SubSeq(sorted, 1, Len(sorted) - 1), item) \o <<last>>
               ELSE sorted \o <<item>>

RECURSIVE SortSimilarities(_)
SortSimilarities(items) ==
  IF items = <<>>
    THEN <<>>
    ELSE InsertSorted(SortSimilarities(SubSeq(items, 1, Len(items) - 1)),
                      items[Len(items)])

\* relevantChunks after `await ai.embed([question])` resolved to
\* questionEmbedding.
RelevantChunksRanked(questionEmbedding, topK, embeddingList, chunkList) ==
  IF ~questionEmbedding.defined \/ Len(questionEmbedding.value) = 0
    THEN Returned(<<>>)
    ELSE
      LET cos == [i \in 1..Len(embeddingList) |->
                    CosineSimilarity(questionEmbedding.value[1], embeddingList[i])]
      IN  IF \E i \in 1..Len(embeddingList) : cos[i].kind = "error"
            THEN LET first == CHOOSE i \in 1..Len(embeddingList) :
                                /\ cos[i].kind = "error"
                                /\ \A j \in 1..(i - 1) : cos[j].kind = "ok"
                 IN  cos[first]
            ELSE
              LET similarities == [i \in 1..Len(embeddingList) |->
                                     [index |-> i - 1, similarity |-> cos[i].value]]
                  top == Slice(SortSimilarities(similarities), 0, topK)
              IN  Returned([k \in 1..Len(top) |-> ChunkAt(chunkList, top[k].index)])

(***************************************************************************)
(* The environment of App: the files a user can pick, what pdf.js extracts *)
(* from their bytes and what the embedding service returns.                *)
(***************************************************************************)
\* const MAX_FILE_SIZE = 100 * 1024 * 1024
MAX_FILE_SIZE == 104857600

\* IndexedDB returns the values of a store in ascending key order.
KeyOrder == <<"a.pdf", "b.pdf">>

KeyRank(key) == CHOOSE r \in DOMAIN KeyOrder : KeyOrder[r] = key

\* event.target.files?.[0]: a File, or undefined when nothing was chosen.
\* `content` names the bytes of the file.
NoFile == [selected |-> FALSE, name |-> "", size |-> 0, content |-> ""]

Files ==
  { [selected |-> TRUE, name |-> "a.pdf", size |-> 1, content |-> "text"],
    [selected |-> TRUE, name |-> "a.pdf", size |-> MAX_FILE_SIZE, content |-> "scan"],
    [selected |-> TRUE, name |-> "b.pdf", size |-> 2, content |-> "broken"],
    [selected |-> TRUE, name |-> "b.pdf", size |-> MAX_FILE_SIZE + 1, content |-> "huge"] }

\* extractText(arrayBuffer): the text of every page, or the rejection of
\* pdfjs.getDocument for bytes that are no PDF document.
ExtractText(content) ==
  CASE content = "text"   -> Returned(<<"a", "b">>)
    [] content = "scan"   -> Returned(<<>>)
    [] content = "huge"   -> Returned(<<"b">>)
    [] content = "other"  -> Returned(<<"b">>)
    [] OTHER              -> Thrown("InvalidPDFException")

\* The vector the embedding service returns for one input text.
EmbeddingOf(text) == <<1, Len(text) % 2>>

\* ai.embed(texts), the request succeeding: one vector per input, in order.
EmbedVectors(texts) == [k \in 1..Len(texts) |-> EmbeddingOf(texts[k])]

(***************************************************************************)
(* IndexedDB object stores with out-of-line keys: sets of [key, value].    *)
(***************************************************************************)
\* A store that keeps the old record beside the new one (add, not upsert).
DbPutAppend(store, value, key) == store \cup {[key |-> key, value |-> value]}

\* db.put(storeName, value, key): upsert under key
DbPut(store, value, key) ==
  {e \in store : e.key # key} \cup {[key |-> key, value |-> value]}

\* db.get(storeName, key): the value, or undefined when there is none
DbGet(store, key) ==
  IF \E e \in store : e.key = key
    THEN Defined((CHOOSE e \in store : e.key = key).value)
    ELSE JsUndefined

\* db.getAll(storeName): every value, in ascending key order
DbGetAll(store) ==
  LET n == Cardinality(store)
      order == CHOOSE s \in [1..n -> store] :
                 /\ \A i, j \in 1..n : i # j => s[i] # s[j]
                 /\ \A i, j \in 1..n : i < j => KeyRank(s[i].key) <= KeyRank(s[j].key)
  IN  [i \in 1..n |-> order[i].value]

(***************************************************************************)
(* src/App.tsx                                                             *)
(***************************************************************************)
\* The calls of onFileChange and openWorkspace that can be in flight.
FlowIds == {1, 2}

NoUrl == [defined |-> FALSE, content |-> ""]

\* URL.createObjectURL(new Blob([content], { type: 'application/pdf' }))
CreateObjectUrl(content) == [defined |-> TRUE, content |-> content]

NoWorkspace == [name |-> "", lastOpened |-> 0, size |-> 0, notes |-> <<>>, content |-> ""]

\* The locals of one onFileChange / openWorkspace call, and what it did.
IdleFlow ==
  [kind |-> "none", pc |-> "idle", name |-> "", size |-> 0, content |-> "",
   workspace |-> NoWorkspace,
   storedChunks |-> JsUndefined, storedEmbeddings |-> JsUndefined,
   chunks |-> <<>>, embeddings |-> JsUndefined,
   indexLoaded |-> FALSE, indexRuns |-> 0, embedRequests |-> 0,
   requestInput |-> <<>>, threw |-> FALSE]

\* The step just taken: the handler or continuation that ran, the file it
\* was given (onFileChange) and the call or list index it belongs to.
Event(op, file, n) == [op |-> op, file |-> file, n |-> n]

FreeSlots(slots) == {i \in slots : flows[i].pc \in {"idle", "done"}}

\* new Date(): later than when it was last read.  The clock stops the model
\* at MaxTime: no call that reads it starts after that.
Stamps == {t \in {now + 1} : t <= MaxTime}

\* What is kept of a call that has ended: what it was and what it did.
Ended(flow, threw) ==
  [IdleFlow EXCEPT !.pc = "done", !.kind = flow.kind, !.name = flow.name,
                   !.indexLoaded = flow.indexLoaded, !.indexRuns = flow.indexRuns,
                   !.embedRequests = flow.embedRequests, !.threw = threw]

\* A plausible slip: >= rejects a file of exactly the maximum size.
FileTooLargeInclusive(file) == file.size >= MAX_FILE_SIZE

\* selectedFile.size > MAX_FILE_SIZE
FileTooLarge(file) == file.size > MAX_FILE_SIZE

\* workspaces.reduce((a, b) => time(a) > time(b) ? a : b), no initial value
RECURSIVE ReduceMostRecent(_, _)
ReduceMostRecent(a, rest) ==
  IF rest = <<>>
    THEN a
    ELSE ReduceMostRecent(IF a.lastOpened > Head(rest).lastOpened THEN a ELSE Head(rest),
                          Tail(rest))

\* A plausible slip: < keeps the least recently opened workspace.
LeastRecentWorkspace(list) ==
  IF list = <<>>
    THEN Thrown("Reduce of empty array with no initial value")
    ELSE Returned(CHOOSE w \in {list[i] : i \in DOMAIN list} :
                    \A i \in DOMAIN list : w.lastOpened <= list[i].lastOpened)

MostRecentWorkspace(list) ==
  IF list = <<>>
    THEN Thrown("Reduce of empty array with no initial value")
    ELSE Returned(ReduceMostRecent(Head(list), Tail(list)))

\* The mount effect: database.open() resolves; setDb, then
\* loadWorkspacesFromDatabase up to database.getAll('workspaces').
DatabaseOpened ==
  /\ startup = "opening"
  /\ startup' = "getAll"
  /\ db' = TRUE
  /\ isLoading' = TRUE
  /\ toast' = ""
  /\ UNCHANGED <<chunks, embeddings, fileUrl, notes, workspaces, storeVars, flows, now>>
  /\ event' = Event("databaseOpened", NoFile, 0)
  /\ UNCHANGED <<libVars, uiVars>>

\* No object URL has been created; App is mounted.  `held` is the state of
\* the URL in the fileUrl state: "none" (undefined), "live" or "revoked".
NoObjectUrls == [held |-> "none", unreleased |-> 0, mounted |-> TRUE]

\* A plausible slip: the effect has no cleanup, nothing is ever revoked.
SetFileUrlUnreleased(u) ==
  [u EXCEPT !.held = "live", !.unreleased = @ + 1]

\* setFileUrl(URL.createObjectURL(...)) and the render it causes: the
\* cleanup of the effect on [fileUrl] runs with the fileUrl of the previous
\* render, if (fileUrl) URL.revokeObjectURL(fileUrl).
SetFileUrl(u) ==
  LET created == [u EXCEPT !.unreleased = @ + 1]
  IN  [created EXCEPT !.held = "live",
                      !.unreleased = IF u.held = "live" THEN @ - 1 ELSE @]

\* App is unmounted: the cleanup of the effect on [fileUrl] runs.
AppUnmounted(u) ==
  [u EXCEPT !.mounted = FALSE,
            !.held = IF @ = "live" THEN "revoked" ELSE @,
            !.unreleased = IF u.held = "live" THEN @ - 1 ELSE @]

\* database.getAll('workspaces') resolves: the .then callback of
\* loadWorkspacesFromDatabase.  The callback is not awaited, so what it
\* throws escapes the try/catch around it and nothing after the throw runs.
WorkspacesLoaded ==
  /\ startup = "getAll"
  /\ LET all == DbGetAll(workspacesStore)
         mostRecent == MostRecentWorkspace(all)
     IN  /\ workspaces' = all
         /\ IF mostRecent.kind = "error"
              THEN /\ startup' = "threw"
                   /\ UNCHANGED <<fileUrl, isLoading, objectUrls>>
              ELSE /\ startup' = "done"
                   /\ fileUrl' = CreateObjectUrl(mostRecent.value.content)
                   /\ objectUrls' = SetFileUrl(objectUrls)
                   /\ isLoading' = FALSE
  /\ toast' = ""
  /\ UNCHANGED <<chunks, db, embeddings, notes, storeVars, flows, now>>
  /\ event' = Event("workspacesLoaded", NoFile, 0)
  /\ UNCHANGED <<libVars, askVars, widgetVars, editorVars>>

\* onFileChange up to its first await.
OnFileChange(selectedFile, slots) ==
  /\ event' = Event("onFileChange", selectedFile, 0)
  /\ UNCHANGED <<libVars, uiVars>>
  /\ IF ~selectedFile.selected
      THEN /\ toast' = "No file selected"
           /\ UNCHANGED <<stateVars, storeVars, startup, flows, now>>
      ELSE IF FileTooLarge(selectedFile)
        THEN /\ toast' = "Maximum file size is 100 MB"
             /\ UNCHANGED <<stateVars, storeVars, startup, flows, now>>
        ELSE IF ~db
          THEN /\ toast' = "Database not initialized"
               /\ UNCHANGED <<stateVars, storeVars, startup, flows, now>>
          ELSE /\ Stamps # {}
               /\ \E i \in FreeSlots(slots) :
                    flows' = [flows EXCEPT ![i] =
                                [IdleFlow EXCEPT !.kind = "ingest", !.pc = "read",
                                                 !.name = selectedFile.name,
                                                 !.content = selectedFile.content,
                                                 !.size = selectedFile.size]]
               /\ isLoading' = TRUE
               /\ toast' = ""
               /\ UNCHANGED <<chunks, db, embeddings, fileUrl, notes, workspaces,
                              storeVars, startup, now>>

\* fileToArrayBuffer(selectedFile) resolves: setFileUrl, the new Workspace
\* record, and saveWorkspaceToDatabase up to db.put.
FileRead(i) ==
  /\ flows[i].pc = "read"
  /\ \E t \in Stamps :
       /\ now' = t
       /\ flows' = [flows EXCEPT
                      ![i].pc = "savePut",
                      ![i].workspace = [name       |-> flows[i].name,
                                        lastOpened |-> t,
                                        size       |-> flows[i].size,
                                        notes      |-> <<>>,
                                        content    |-> flows[i].content]]
  /\ fileUrl' = CreateObjectUrl(flows[i].content)
  /\ objectUrls' = SetFileUrl(objectUrls)
  /\ toast' = ""
  /\ UNCHANGED <<chunks, db, embeddings, isLoading, notes, workspaces, storeVars, startup>>
  /\ event' = Event("fileRead", NoFile, i)
  /\ UNCHANGED <<libVars, askVars, widgetVars, editorVars>>

\* openWorkspace(workspaces[k]) up to db.put in saveWorkspaceToDatabase.
\* The record is the object held in the workspaces state, stamped in place.
OpenWorkspace(k, slots) ==
  /\ event' = Event("openWorkspace", NoFile, k)
  /\ UNCHANGED <<libVars, askVars, widgetVars, editorVars>>
  /\ IF ~db
      THEN /\ toast' = "Database not initialized"
           /\ UNCHANGED <<stateVars, storeVars, startup, flows, now, objectUrls>>
      ELSE /\ \E i \in FreeSlots(slots), t \in Stamps :
                LET workspace == [workspaces[k] EXCEPT !.lastOpened = t]
                IN  /\ now' = t
                    /\ workspaces' = [workspaces EXCEPT ![k] = workspace]
                    /\ fileUrl' = CreateObjectUrl(workspace.content)
                    /\ objectUrls' = SetFileUrl(objectUrls)
                    /\ flows' = [flows EXCEPT ![i] =
                                   [IdleFlow EXCEPT !.kind = "open", !.pc = "savePut",
                                                    !.name = workspace.name,
                                                    !.size = workspace.size,
                                                    !.content = workspace.content,
                                                    !.workspace = workspace]]
           /\ isLoading' = TRUE
           /\ toast' = ""
           /\ UNCHANGED <<chunks, db, embeddings, notes, storeVars, startup>>

\* db.put('workspaces', workspace, workspace.name)
SaveKey(workspace) == workspace.name

\* saveWorkspaceToDatabase: db.put resolves, or rejects into the function's
\* own catch, after which the caller goes on to loadIndex.
SavePut(i) ==
  /\ flows[i].pc = "savePut"
  /\ \/ /\ workspacesStore' = DbPut(workspacesStore, flows[i].workspace,
                                    SaveKey(flows[i].workspace))
        /\ flows' = [flows EXCEPT ![i].pc = "saveGetAll"]
        /\ toast' = ""
     \/ /\ flows' = [flows EXCEPT ![i].pc = "loadChunks"]
        /\ toast' = "Failed to save workspace"
        /\ UNCHANGED workspacesStore
  /\ UNCHANGED <<stateVars, chunksStore, embeddingsStore, startup, now>>
  /\ event' = Event("savePut", NoFile, i)
  /\ UNCHANGED <<libVars, uiVars>>

\* saveWorkspaceToDatabase: db.getAll resolves, setWorkspaces; the caller
\* goes on to loadIndex, up to db.get('chunks', fileName).
SaveGetAll(i) ==
  /\ flows[i].pc = "saveGetAll"
  /\ workspaces' = DbGetAll(workspacesStore)
  /\ flows' = [flows EXCEPT ![i].pc = "loadChunks"]
  /\ toast' = ""
  /\ UNCHANGED <<chunks, db, embeddings, fileUrl, isLoading, notes, storeVars, startup, now>>
  /\ event' = Event("saveGetAll", NoFile, i)
  /\ UNCHANGED <<libVars, uiVars>>

\* loadIndex: db.get('chunks', fileName) resolves.
LoadChunks(i) ==
  /\ flows[i].pc = "loadChunks"
  /\ flows' = [flows EXCEPT ![i].pc = "loadEmbeddings",
                            ![i].storedChunks = DbGet(chunksStore, flows[i].name)]
  /\ toast' = ""
  /\ UNCHANGED <<stateVars, storeVars, startup, now>>
  /\ event' = Event("loadChunks", NoFile, i)
  /\ UNCHANGED <<libVars, uiVars>>

\* The value db.get('embeddings', fileName) resolves to: the stored value
\* may itself be undefined.
StoredEmbeddings(name) ==
  LET got == DbGet(embeddingsStore, name)
  IN  IF got.defined THEN got.value ELSE JsUndefined

\* A plausible slip: the stored index is never recognised.
IndexNeverFound(storedChunks, storedEmbeddings) ==
  FALSE

\* if (storedChunks && storedEmbeddings)
IndexFound(storedChunks, storedEmbeddings) ==
  Truthy(storedChunks) /\ Truthy(storedEmbeddings)

\* loadIndex: db.get('embeddings', fileName) resolves and loadIndex returns.
\* openWorkspace then ends; onFileChange ends when the index was loaded and
\* else calls index(selectedFile), which runs up to extractText (reading
\* the file again touches no state).
LoadEmbeddings(i) ==
  /\ flows[i].pc = "loadEmbeddings"
  /\ LET storedChunks == flows[i].storedChunks
         storedEmbeddings == StoredEmbeddings(flows[i].name)
         indexLoaded == IndexFound(storedChunks, storedEmbeddings)
         runIndex == flows[i].kind = "ingest" /\ ~indexLoaded
     IN  /\ IF indexLoaded
              THEN /\ chunks' = storedChunks.value
                   /\ embeddings' = storedEmbeddings.value
              ELSE UNCHANGED <<chunks, embeddings>>
         /\ flows' = [flows EXCEPT ![i] =
                        IF runIndex
                          THEN [@ EXCEPT !.storedEmbeddings = storedEmbeddings,
                                         !.indexLoaded = FALSE,
                                         !.indexRuns = @ + 1,
                                         !.pc = "extractText"]
                          ELSE Ended([@ EXCEPT !.indexLoaded = indexLoaded], FALSE)]
         /\ isLoading' = IF runIndex THEN isLoading ELSE FALSE
  /\ toast' = ""
  /\ UNCHANGED <<db, fileUrl, notes, workspaces, storeVars, startup, now>>
  /\ event' = Event("loadEmbeddings", NoFile, i)
  /\ UNCHANGED <<libVars, uiVars>>

\* index: extractText resolves, chunkText, setChunks, and ai.embed(chunks)
\* issues its request; or extractText rejects into the catch of
\* onFileChange.
TextExtracted(i) ==
  /\ flows[i].pc = "extractText"
  /\ LET text == ExtractText(flows[i].content)
     IN  IF text.kind = "error"
           THEN /\ flows' = [flows EXCEPT ![i] = Ended(@, TRUE)]
                /\ toast' = "Failed to open file"
                /\ isLoading' = FALSE
                /\ UNCHANGED chunks
           ELSE LET chunked == ChunkText(text.value, DefaultChunkSize)
                IN  /\ chunks' = chunked
                    /\ flows' = [flows EXCEPT ![i].pc = "embed",
                                              ![i].chunks = chunked,
                                              ![i].embedRequests = @ + 1,
                                              ![i].requestInput = chunked]
                    /\ toast' = ""
                    /\ UNCHANGED isLoading
  /\ UNCHANGED <<db, embeddings, fileUrl, notes, workspaces, storeVars, startup, now>>
  /\ event' = Event("textExtracted", NoFile, i)
  /\ UNCHANGED <<libVars, uiVars>>

\* index: ai.embed resolves, to the vectors or (the request failed, with a
\* notification) to undefined; index goes on to db.put('chunks', ...).
Embedded(i) ==
  /\ flows[i].pc = "embed"
  /\ \/ /\ embeddings' = EmbedVectors(flows[i].requestInput)
        /\ flows' = [flows EXCEPT ![i].pc = "putChunks",
                                  ![i].embeddings = EmbedOk(EmbedVectors(flows[i].requestInput))]
        /\ toast' = ""
     \/ /\ flows' = [flows EXCEPT ![i].pc = "putChunks", ![i].embeddings = EmbedFailed]
        /\ toast' = "Failed to embed text"
        /\ UNCHANGED embeddings
  /\ UNCHANGED <<chunks, db, fileUrl, isLoading, notes, workspaces, storeVars, startup, now>>
  /\ event' = Event("embedded", NoFile, i)
  /\ UNCHANGED <<libVars, uiVars>>

\* A plausible slip: the chunk list is persisted while ai.embed is still
\* awaited, and index goes on to db.put('embeddings', ...).
ChunksPutUnawaited(i) ==
  /\ flows[i].pc = "embed"
  /\ chunksStore' = DbPut(chunksStore, flows[i].chunks, flows[i].name)
  /\ flows' = [flows EXCEPT ![i].pc = "putEmbeddings"]
  /\ toast' = ""
  /\ UNCHANGED <<stateVars, workspacesStore, embeddingsStore, startup, now>>
  /\ event' = Event("chunksPut", NoFile, i)
  /\ UNCHANGED <<libVars, uiVars>>

\* index: db.put('chunks', chunks, pdfFile.name) resolves, or rejects into
\* the catch of onFileChange.
ChunksPut(i) ==
  /\ flows[i].pc = "putChunks"
  /\ \/ /\ chunksStore' = DbPut(chunksStore, flows[i].chunks, flows[i].name)
        /\ flows' = [flows EXCEPT ![i].pc = "putEmbeddings"]
        /\ toast' = ""
        /\ UNCHANGED isLoading
     \/ /\ flows' = [flows EXCEPT ![i] = Ended(@, TRUE)]
        /\ toast' = "Failed to open file"
        /\ isLoading' = FALSE
        /\ UNCHANGED chunksStore
  /\ UNCHANGED <<chunks, db, embeddings, fileUrl, notes, workspaces,
                 workspacesStore, embeddingsStore, startup, now>>
  /\ event' = Event("chunksPut", NoFile, i)
  /\ UNCHANGED <<libVars, uiVars>>

\* index: db.put('embeddings', embeddings, pdfFile.name) resolves, index
\* reports success and onFileChange ends; or the put rejects into the catch.
EmbeddingsPut(i) ==
  /\ flows[i].pc = "putEmbeddings"
  /\ \/ /\ embeddingsStore' = DbPut(embeddingsStore, flows[i].embeddings, flows[i].name)
        /\ flows' = [flows EXCEPT ![i] = Ended(@, FALSE)]
        /\ toast' = "Indexed"
     \/ /\ flows' = [flows EXCEPT ![i] = Ended(@, TRUE)]
        /\ toast' = "Failed to open file"
        /\ UNCHANGED embeddingsStore
  /\ isLoading' = FALSE
  /\ UNCHANGED <<chunks, db, embeddings, fileUrl, notes, workspaces,
                 workspacesStore, chunksStore, startup, now>>
  /\ event' = Event("embeddingsPut", NoFile, i)
  /\ UNCHANGED <<libVars, uiVars>>

\* The page is loaded again: the component state is constructed anew, the
\* calls in flight are gone, the stores stay.
Reload ==
  /\ startup' = "opening"
  /\ chunks' = <<>>
  /\ db' = FALSE
  /\ embeddings' = <<>>
  /\ fileUrl' = NoUrl
  /\ isLoading' = FALSE
  /\ notes' = <<>>
  /\ workspaces' = <<>>
  /\ flows' = [i \in FlowIds |-> IdleFlow]
  /\ toast' = ""
  /\ UNCHANGED <<storeVars, now>>
  /\ event' = Event("reload", NoFile, 0)
  /\ objectUrls' = NoObjectUrls
  /\ UNCHANGED <<libVars, askVars, widgetVars, editorVars>>

\* App is unmounted.
AppUnmount ==
  /\ objectUrls.mounted
  /\ objectUrls' = AppUnmounted(objectUrls)
  /\ event' = Event("unmount", NoFile, 0)
  /\ UNCHANGED <<stateVars, storeVars, startup, flows, now, toast>>
  /\ UNCHANGED <<libVars, askVars, widgetVars, editorVars>>

\* What App renders.
Render ==
  IF isLoading THEN "spinner"
  ELSE IF fileUrl.defined THEN "workspace"
  ELSE "empty"

(***************************************************************************)
(* src/App.tsx: askQuestion                                                *)
(***************************************************************************)
\* The questions the dialog submits (never blank) and the texts the
\* completion service answers with.
Questions == {<<"q">>, <<"q", "?">>}

Answers == {<<"x">>, <<"y", "z">>}

\* What ai.ask resolves to: undefined (the request failed, with a
\* notification of its own), or message.content, which may be ''.
AnswerFailed == JsUndefined

AskReplies == {AnswerFailed, Defined(<<>>)} \cup {Defined(a) : a \in Answers}

\* if (answer): a string is truthy when it is not empty.
TruthyString(x) == x.defined /\ x.value # <<>>

\* topK: 5
TopK == 5

\* No call of askQuestion has been made.
IdleAsk ==
  [pc |-> "idle", question |-> <<>>, chunks |-> <<>>, embeddings |-> <<>>,
   context |-> <<>>, answer |-> JsUndefined, notesBefore |-> <<>>,
   toasts |-> 0, threw |-> FALSE]

\* A plausible slip: the answer is appended after a separating space.
AppendAnswerSpaced(text, answer) == text \o <<" ">> \o answer

\* (notes) => notes + answer
AppendAnswer(text, answer) == text \o answer

\* The locals of a call of askQuestion at its first await: the chunks and
\* embeddings of the render that made the callback.
AskStarted(question) ==
  [IdleAsk EXCEPT !.pc = IF embeddings = <<>> THEN "awaitAnswer"
                                              ELSE "awaitEmbedding",
                  !.question = question,
                  !.chunks = chunks,
                  !.embeddings = embeddings,
                  !.notesBefore = notes]

\* askQuestion(question), called by the question dialog of the mounted
\* viewer, up to its first request: relevantChunks returns [] at once when
\* no embeddings are in memory and ai.ask posts the completion request;
\* else relevantChunks posts the embedding request of the question.
AskQuestion(question) ==
  /\ Render = "workspace"
  /\ ask.pc \in {"idle", "done"}
  /\ Len(notes) < MaxNotesLen
  /\ ask' = AskStarted(question)
  /\ toast' = ""
  /\ event' = Event("askQuestion", NoFile, 0)
  /\ UNCHANGED <<stateVars, storeVars, startup, flows, now, libVars, widgetVars, urlVars, editorVars>>

\* relevantChunks: ai.embed([question]) resolves, to undefined with a
\* notification or to the vector of the question; the chunks are ranked
\* (a throw of cosineSimilarity rejects askQuestion) and ai.ask posts the
\* completion request.
QuestionEmbedded ==
  /\ ask.pc = "awaitEmbedding"
  /\ \E reply \in {EmbedFailed, EmbedOk(<<EmbeddingOf(ask.question)>>)} :
       LET context == RelevantChunksRanked(reply, TopK, ask.embeddings, ask.chunks)
           failed == IF reply.defined THEN 0 ELSE 1
       IN  /\ ask' = IF context.kind = "error"
                       THEN [ask EXCEPT !.pc = "done", !.threw = TRUE]
                       ELSE [ask EXCEPT !.pc = "awaitAnswer",
                                        !.context = context.value,
                                        !.toasts = @ + failed]
           /\ toast' = IF reply.defined THEN "" ELSE "Failed to embed text"
  /\ event' = Event("questionEmbedded", NoFile, 0)
  /\ UNCHANGED <<stateVars, storeVars, startup, flows, now, libVars, widgetVars, urlVars, editorVars>>

\* ai.ask resolves and askQuestion ends: the answer is appended to the
\* notes of the moment, or its absence is notified.
Answered ==
  /\ ask.pc = "awaitAnswer"
  /\ \E answer \in AskReplies :
       /\ Len(notes) + (IF answer.defined THEN Len(answer.value) ELSE 0) <= MaxNotesLen
       /\ IF TruthyString(answer)
            THEN /\ notes' = AppendAnswer(notes, answer.value)
                 /\ toast' = ""
                 /\ ask' = [ask EXCEPT !.pc = "done", !.answer = answer]
            ELSE /\ notes' = notes
                 /\ toast' = "Failed to answer question"
                 /\ ask' = [ask EXCEPT !.pc = "done", !.answer = answer,
                                       !.toasts = @ + (IF answer.defined THEN 1 ELSE 2)]
  /\ event' = Event("answered", NoFile, 0)
  /\ UNCHANGED <<chunks, db, embeddings, fileUrl, isLoading, workspaces,
                 storeVars, startup, flows, now, libVars, widgetVars, urlVars, editorVars>>

(***************************************************************************)
(* src/components/editor.tsx: the note editor, rendered by the viewer with *)
(* content={notes} and onChange={setNotes}.                                *)
(***************************************************************************)
\* The editor is not mounted.
NoEditor == [mounted |-> FALSE, doc |-> <<>>]

HtmlTags == {"<p>", "</p>"}

\* editor.getHTML(): the text of the document inside a paragraph element.
GetHTML(doc) == <<"<p>">> \o doc \o <<"</p>">>

\* The document the editor builds from its `content` option: the text
\* of the HTML.
RECURSIVE ParseHTML(_)
ParseHTML(content) ==
  IF content = <<>> THEN <<>>
  ELSE IF Head(content) \in HtmlTags THEN ParseHTML(Tail(content))
  ELSE <<Head(content)>> \o ParseHTML(Tail(content))

\* What the user types into the editor.
EditorKeys == {"c"}

\* The viewer is on screen exactly when the editor is mounted.
EditorInSync == (Render = "workspace") <=> editor.mounted

\* The viewer is rendered and with it the editor: useEditor({ content, ... })
\* creates the document from the notes of that render.
EditorMounted ==
  /\ Render = "workspace"
  /\ ~editor.mounted
  /\ editor' = [mounted |-> TRUE, doc |-> ParseHTML(notes)]
  /\ event' = Event("editorMounted", NoFile, 0)
  /\ UNCHANGED <<stateVars, storeVars, startup, flows, now, toast>>
  /\ UNCHANGED <<libVars, askVars, widgetVars, urlVars>>

\* The viewer is replaced by the spinner: the editor is destroyed.
EditorUnmounted ==
  /\ Render # "workspace"
  /\ editor.mounted
  /\ editor' = NoEditor
  /\ event' = Event("editorUnmounted", NoFile, 0)
  /\ UNCHANGED <<stateVars, storeVars, startup, flows, now, toast>>
  /\ UNCHANGED <<libVars, askVars, widgetVars, urlVars>>

\* The user types into the editor: onUpdate calls onChange(editor.getHTML()),
\* which is setNotes.
EditorTyped(key) ==
  /\ Render = "workspace"
  /\ editor.mounted
  /\ Len(editor.doc) < MaxNotesLen
  /\ LET doc == editor.doc \o <<key>>
     IN  /\ editor' = [editor EXCEPT !.doc = doc]
         /\ notes' = GetHTML(doc)
  /\ event' = Event("editorTyped", NoFile, 0)
  /\ UNCHANGED <<chunks, db, embeddings, fileUrl, isLoading, workspaces,
                 storeVars, startup, flows, now, toast>>
  /\ UNCHANGED <<libVars, askVars, widgetVars, urlVars>>

(***************************************************************************)
(* src/components/workspace.tsx: the viewer                                *)
(***************************************************************************)
\* The documents a reference can point to: pdf.numPages and what
\* pdf.getOutline() holds, an item being [title, pageNumber].
Docs == {"paper", "book"}

NumPages(doc) == IF doc = "paper" THEN 3 ELSE MaxPages

DocOutline(doc) ==
  IF doc = "paper" THEN <<>> ELSE <<[title |-> "Chapter", pageNumber |-> 5]>>

\* parseOutline(pdf): undefined for an outline without entries.
ParseOutline(doc) ==
  IF Len(DocOutline(doc)) = 0 THEN JsUndefined ELSE Defined(DocOutline(doc))

\* The scale is kept in tenths: 10 is 1.0.
ScaleOne == 10
ScaleStep == 1
ScaleMax == 20
ScaleMin == 5

\* initialState (content and containerWidth, which no claim reads, left out)
initialState ==
  [currentPage |-> 1, key |-> 0, numPages |-> JsUndefined, outline |-> JsUndefined,
   scale |-> ScaleOne, selectedText |-> <<>>]

Action(type, payload) == [type |-> type, payload |-> payload]

\* A plausible slip: RESET_FILE that keeps the zoom.
ResetFileKeepingScale(s) ==
  [s EXCEPT !.currentPage = 1, !.key = s.key + 1, !.numPages = JsUndefined,
            !.selectedText = <<>>]

\* case 'RESET_FILE'
ResetFile(s) ==
  [s EXCEPT !.currentPage = 1, !.key = s.key + 1, !.numPages = JsUndefined,
            !.scale = ScaleOne, !.selectedText = <<>>]

workspaceReducer(s, action) ==
  CASE action.type = "SET_CURRENT_PAGE"  -> [s EXCEPT !.currentPage = action.payload]
    [] action.type = "SET_NUM_PAGES"     -> [s EXCEPT !.numPages = Defined(action.payload)]
    [] action.type = "SET_OUTLINE"       -> [s EXCEPT !.outline = Defined(action.payload)]
    [] action.type = "SET_SCALE"         -> [s EXCEPT !.scale = action.payload]
    [] action.type = "SET_SELECTED_TEXT" -> [s EXCEPT !.selectedText = action.payload]
    [] action.type = "RESET_FILE"        -> ResetFile(s)
    [] OTHER                             -> s

\* state.numPages || state.currentPage
NumPagesOr(s) ==
  IF s.numPages.defined /\ s.numPages.value # 0 THEN s.numPages.value ELSE s.currentPage

\* renderPaginationItems: maxVisiblePages and Math.floor(maxVisiblePages / 2)
maxVisiblePages == 5
halfVisible == 2

Ellipsis == [kind |-> "ellipsis", page |-> 0]
PageLink(i) == [kind |-> "link", page |-> i]

\* A plausible slip: the window is not moved back when it is cut short by
\* the last page.
WindowStartUnadjusted(numPages, currentPage) == Max(1, currentPage - halfVisible)

\* start, after `if (end - start + 1 < maxVisiblePages)`
WindowStart(numPages, currentPage) ==
  LET start == Max(1, currentPage - halfVisible)
      end   == Min(numPages, start + maxVisiblePages - 1)
  IN  IF end - start + 1 < maxVisiblePages
        THEN Max(1, end - maxVisiblePages + 1)
        ELSE start

\* end: computed from the first start and not again
WindowEnd(numPages, currentPage) ==
  Min(numPages, Max(1, currentPage - halfVisible) + maxVisiblePages - 1)

\* renderPaginationItems(): null without a page count, else the items
RenderPaginationItems(s) ==
  IF ~s.numPages.defined \/ s.numPages.value = 0
    THEN JsUndefined
    ELSE LET start == WindowStart(s.numPages.value, s.currentPage)
             end   == WindowEnd(s.numPages.value, s.currentPage)
             links == [k \in 1..(IF end >= start THEN end - start + 1 ELSE 0)
                         |-> PageLink(start + k - 1)]
         IN  Defined((IF start > 1 THEN <<Ellipsis>> ELSE <<>>)
                     \o links
                     \o (IF end < s.numPages.value THEN <<Ellipsis>> ELSE <<>>))

outsideViewer == <<libVars, appVars, askVars, dialogVars, urlVars, editorVars>>

\* The step just taken by the viewer, and the key it was given (keydown).
ViewerEvent(op, key, ctrlKey) == [op |-> op, key |-> key, ctrlKey |-> ctrlKey]

\* The component is mounted on a document: the reducer starts from
\* initialState, the effect on [file] runs and <Document> starts loading.
Mount(doc) ==
  /\ viewerEvent' = ViewerEvent("mount", "", FALSE)
  /\ ~mounted
  /\ mounted' = TRUE
  /\ viewerFile' = doc
  /\ state' = workspaceReducer(initialState, Action("RESET_FILE", 0))
  /\ docLoad' = doc
  /\ parsing' = {}
  /\ UNCHANGED outsideViewer

\* The file prop changes (every display is a new object URL): the effect on
\* [file] dispatches RESET_FILE, and <Document>, keyed by state.key, is
\* mounted anew and loads the new file.
FileChanged(doc) ==
  /\ viewerEvent' = ViewerEvent("fileChanged", "", FALSE)
  /\ mounted
  /\ state.key < MaxKey
  /\ viewerFile' = doc
  /\ state' = workspaceReducer(state, Action("RESET_FILE", 0))
  /\ docLoad' = doc
  /\ UNCHANGED <<mounted, parsing, outsideViewer>>

\* The component is unmounted; what it awaited resolves into nothing.
Unmount ==
  /\ viewerEvent' = ViewerEvent("unmount", "", FALSE)
  /\ mounted
  /\ mounted' = FALSE
  /\ docLoad' = ""
  /\ parsing' = {}
  /\ UNCHANGED <<state, viewerFile, outsideViewer>>

\* onDocumentLoadSuccess up to `await parseOutline(pdf)`.
DocumentLoaded ==
  /\ viewerEvent' = ViewerEvent("documentLoaded", "", FALSE)
  /\ mounted
  /\ docLoad # ""
  /\ state' = workspaceReducer(
                workspaceReducer(state, Action("SET_CURRENT_PAGE", 1)),
                Action("SET_NUM_PAGES", NumPages(docLoad)))
  /\ parsing' = parsing \cup {docLoad}
  /\ docLoad' = ""
  /\ UNCHANGED <<viewerFile, mounted, outsideViewer>>

\* onDocumentLoadSuccess: parseOutline resolves;
\* if (outline) dispatch SET_OUTLINE.
OutlineParsed(doc) ==
  /\ viewerEvent' = ViewerEvent("outlineParsed", "", FALSE)
  /\ mounted
  /\ doc \in parsing
  /\ parsing' = parsing \ {doc}
  /\ LET outline == ParseOutline(doc)
     IN  state' = IF Truthy(outline)
                    THEN workspaceReducer(state, Action("SET_OUTLINE", outline.value))
                    ELSE state
  /\ UNCHANGED <<viewerFile, mounted, docLoad, outsideViewer>>

\* A plausible slip: '+' without the ceiling.
ZoomInUncapped(s) == s.scale + ScaleStep

\* Math.min(state.scale + 0.1, 2)
ZoomIn(s) == Min(s.scale + ScaleStep, ScaleMax)

\* Math.max(state.scale - 0.1, 0.5)
ZoomOut(s) == Max(s.scale - ScaleStep, ScaleMin)

Keys == {"+", "-", "0", "l", "h", "a"}

\* handleKeyDown
KeyDown(key, ctrlKey) ==
  /\ viewerEvent' = ViewerEvent("keyDown", key, ctrlKey)
  /\ mounted
  /\ state' =
       IF ctrlKey
         THEN CASE key = "l" -> workspaceReducer(state,
                                  Action("SET_CURRENT_PAGE",
                                         Min(state.currentPage + 1, NumPagesOr(state))))
                [] key = "h" -> workspaceReducer(state,
                                  Action("SET_CURRENT_PAGE", Max(state.currentPage - 1, 1)))
                [] OTHER     -> state
         ELSE CASE key = "+" -> workspaceReducer(state, Action("SET_SCALE", ZoomIn(state)))
                [] key = "-" -> workspaceReducer(state, Action("SET_SCALE", ZoomOut(state)))
                [] key = "0" -> workspaceReducer(state, Action("SET_SCALE", ScaleOne))
                [] OTHER     -> state
  /\ UNCHANGED <<viewerFile, mounted, docLoad, parsing, outsideViewer>>

\* onItemClick(pageNumber), from an entry of the outline panel.
OutlineItemClicked(k) ==
  /\ viewerEvent' = ViewerEvent("outlineItemClicked", "", FALSE)
  /\ mounted
  /\ state.outline.defined
  /\ k \in DOMAIN state.outline.value
  /\ state' = workspaceReducer(state,
                Action("SET_CURRENT_PAGE", state.outline.value[k].pageNumber))
  /\ UNCHANGED <<viewerFile, mounted, docLoad, parsing, outsideViewer>>

\* nextPage, from the pagination control and the context menu
NextPage ==
  /\ viewerEvent' = ViewerEvent("nextPage", "", FALSE)
  /\ mounted
  /\ state' = workspaceReducer(state,
                Action("SET_CURRENT_PAGE",
                       Min(state.currentPage + 1, NumPagesOr(state))))
  /\ UNCHANGED <<viewerFile, mounted, docLoad, parsing, outsideViewer>>

\* prevPage, from the pagination control and the context menu
PrevPage ==
  /\ viewerEvent' = ViewerEvent("prevPage", "", FALSE)
  /\ mounted
  /\ state' = workspaceReducer(state,
                Action("SET_CURRENT_PAGE", Max(state.currentPage - 1, 1)))
  /\ UNCHANGED <<viewerFile, mounted, docLoad, parsing, outsideViewer>>

\* onClick of the page link i that renderPaginationItems rendered
PageLinkClicked(i) ==
  /\ viewerEvent' = ViewerEvent("pageLinkClicked", "", FALSE)
  /\ mounted
  /\ LET items == RenderPaginationItems(state)
     IN  /\ items.defined
         /\ \E k \in DOMAIN items.value : items.value[k] = PageLink(i)
  /\ state' = workspaceReducer(state, Action("SET_CURRENT_PAGE", i))
  /\ UNCHANGED <<viewerFile, mounted, docLoad, parsing, outsideViewer>>

SelectableTexts == {<<>>, <<"s">>}

\* handleTextSelection
TextSelected(text) ==
  /\ viewerEvent' = ViewerEvent("textSelected", "", FALSE)
  /\ mounted
  /\ state' = workspaceReducer(state, Action("SET_SELECTED_TEXT", text))
  /\ UNCHANGED <<viewerFile, mounted, docLoad, parsing, outsideViewer>>

ViewerIdle ==
  /\ state = initialState
  /\ viewerFile = ""
  /\ mounted = FALSE
  /\ docLoad = ""
  /\ parsing = {}
  /\ viewerEvent = ViewerEvent("none", "", FALSE)

ViewerNext ==
  \/ \E doc \in Docs : Mount(doc)
  \/ \E doc \in Docs : FileChanged(doc)
  \/ Unmount
  \/ DocumentLoaded
  \/ \E doc \in Docs : OutlineParsed(doc)
  \/ \E key \in Keys, ctrlKey \in BOOLEAN : KeyDown(key, ctrlKey)
  \/ \E k \in 1..1 : OutlineItemClicked(k)
  \/ NextPage
  \/ PrevPage
  \/ \E i \in 1..MaxPages : PageLinkClicked(i)
  \/ \E text \in SelectableTexts : TextSelected(text)

(***************************************************************************)
(* The question dialog (question-dialog.tsx; workspace.tsx holds           *)
(* isQuestionDialogOpen and passes state.selectedText).                    *)
(***************************************************************************)
outsideDialog == <<libVars, appVars, askVars, viewerVars, urlVars, editorVars>>

Whitespace == {" ", "\n"}

\* String.prototype.trim
RECURSIVE TrimStart(_)
TrimStart(s) ==
  IF s # <<>> /\ Head(s) \in Whitespace THEN TrimStart(Tail(s)) ELSE s

RECURSIVE TrimEnd(_)
TrimEnd(s) ==
  IF s # <<>> /\ s[Len(s)] \in Whitespace
    THEN TrimEnd(SubSeq(s, 1, Len(s) - 1))
    ELSE s

Trim(s) == TrimEnd(TrimStart(s))

\* What the user may have typed into the textarea.
TypedQuestions == {<<>>, <<" ">>, <<"q">>, <<"q", " ">>}

\* What a rejected onSubmit carries.
SubmitErrors == {"Error: no chunks", "TypeError"}

IdleDialog ==
  [ isQuestionDialogOpen |-> FALSE,
    question             |-> <<>>,
    isLoading            |-> FALSE,
    pc                   |-> "idle",
    q                    |-> <<>>,
    toast                |-> JsUndefined,
    event                |-> "none" ]

\* selectedText ? `${selectedText}\n${question}` : question
SubmittedQuestion(selectedText, question) ==
  IF selectedText # <<>> THEN selectedText \o <<"\n">> \o question ELSE question

\* A plausible slip: the dialog closes with the typed text still in it.
SubmitDoneKeepingQuestion(d) ==
  [d EXCEPT !.isQuestionDialogOpen = FALSE]

\* setQuestion(''); onClose();
SubmitDone(d) ==
  [d EXCEPT !.question = <<>>, !.isQuestionDialogOpen = FALSE]

\* toast.error(`Failed to ask question: ${error}`);
SubmitFailed(d, error) ==
  [d EXCEPT !.toast = Defined([message |-> "Failed to ask question: ",
                               detail  |-> error])]

\* handleAskQuestion, from the context menu of the viewer.
HandleAskQuestion ==
  /\ mounted
  /\ ~dialog.isQuestionDialogOpen
  /\ dialog' = [dialog EXCEPT !.isQuestionDialogOpen = TRUE,
                              !.event = "handleAskQuestion"]
  /\ UNCHANGED outsideDialog

\* onChange of the textarea: setQuestion(e.target.value)
QuestionTyped(text) ==
  /\ mounted
  /\ dialog.isQuestionDialogOpen
  /\ dialog' = [dialog EXCEPT !.question = text, !.event = "questionTyped"]
  /\ UNCHANGED outsideDialog

\* onOpenChange of the dialog: onClose()
DialogClosed ==
  /\ mounted
  /\ dialog.isQuestionDialogOpen
  /\ dialog' = [dialog EXCEPT !.isQuestionDialogOpen = FALSE,
                              !.event = "dialogClosed"]
  /\ UNCHANGED outsideDialog

\* setIsLoading(true); const q = ...; await onSubmit(q)
Submitting(d, selectedText) ==
  [d EXCEPT !.isLoading = TRUE,
            !.pc = "awaitSubmit",
            !.q = SubmittedQuestion(selectedText, d.question),
            !.event = "handleSubmit"]

\* handleSubmit up to `await onSubmit(q)`; the submit button is disabled
\* while isLoading.
HandleSubmit ==
  /\ mounted
  /\ dialog.isQuestionDialogOpen
  /\ ~dialog.isLoading
  /\ dialog.pc = "idle"
  /\ dialog' =
       IF Trim(dialog.question) = <<>>
         THEN [dialog EXCEPT !.event = "submitIgnored"]
         ELSE Submitting(dialog, state.selectedText)
  /\ UNCHANGED outsideDialog

\* handleSubmit: onSubmit resolved; then the finally block.
SubmitResolved ==
  /\ mounted
  /\ dialog.pc = "awaitSubmit"
  /\ dialog' = [SubmitDone(dialog) EXCEPT !.isLoading = FALSE,
                                          !.pc = "idle",
                                          !.event = "submitResolved"]
  /\ UNCHANGED outsideDialog

\* handleSubmit: onSubmit rejected; the catch block, then the finally block.
SubmitRejected(error) ==
  /\ mounted
  /\ dialog.pc = "awaitSubmit"
  /\ dialog' = [SubmitFailed(dialog, error) EXCEPT !.isLoading = FALSE,
                                                   !.pc = "idle",
                                                   !.event = "submitRejected"]
  /\ UNCHANGED outsideDialog

\* The notification is transient: it goes away by itself.
ToastDismissed ==
  /\ dialog.toast.defined
  /\ dialog' = [dialog EXCEPT !.toast = JsUndefined, !.event = "toastDismissed"]
  /\ UNCHANGED outsideDialog

\* handleSubmit in the viewer that App renders, where onSubmit is
\* askQuestion (onSubmit={askQuestion}): the handler runs up to
\* `await onSubmit(q)` and askQuestion(q) up to its first request.
SubmitAsked ==
  /\ mounted
  /\ Render = "workspace"
  /\ dialog.isQuestionDialogOpen
  /\ ~dialog.isLoading
  /\ dialog.pc = "idle"
  /\ Trim(dialog.question) # <<>>
  /\ ask.pc \in {"idle", "done"}
  /\ Len(notes) < MaxNotesLen
  /\ dialog' = Submitting(dialog, state.selectedText)
  /\ ask' = AskStarted(SubmittedQuestion(state.selectedText, dialog.question))
  /\ toast' = ""
  /\ event' = Event("askQuestion", NoFile, 0)
  /\ UNCHANGED <<stateVars, storeVars, startup, flows, now, libVars, viewerVars,
                 urlVars, editorVars>>

\* The promise of askQuestion that handleSubmit awaits is fulfilled: the
\* call has returned.
AskFulfilled == ask.pc = "done" /\ ~ask.threw

DialogIdle == dialog = IdleDialog

\* The dialog inside a mounted viewer, where text may be selected.
DialogNext ==
  \/ \E doc \in Docs : Mount(doc)
  \/ \E text \in SelectableTexts : TextSelected(text)
  \/ HandleAskQuestion
  \/ \E text \in TypedQuestions : QuestionTyped(text)
  \/ DialogClosed
  \/ HandleSubmit
  \/ SubmitResolved
  \/ \E error \in SubmitErrors : SubmitRejected(error)
  \/ ToastDismissed

UiIdle == ask = IdleAsk /\ ViewerIdle /\ DialogIdle /\ objectUrls = NoObjectUrls /\ editor = NoEditor

(***************************************************************************)
(* The state after construction, and the specification of the screen.      *)
(***************************************************************************)
LibIdle ==
  /\ libArgs = [none |-> TRUE]
  /\ libPc = "idle"
  /\ libResult = [kind |-> "none"]
  /\ libEmbedCalls = 0
  /\ libReply = [defined |-> FALSE, pending |-> TRUE]

\* A first visit: the database is empty and App has just been mounted.
AppInit ==
  /\ chunks = <<>>
  /\ db = FALSE
  /\ embeddings = <<>>
  /\ fileUrl = NoUrl
  /\ isLoading = FALSE
  /\ notes = <<>>
  /\ workspaces = <<>>
  /\ workspacesStore = {}
  /\ chunksStore = {}
  /\ embeddingsStore = {}
  /\ startup = "opening"
  /\ flows = [i \in FlowIds |-> IdleFlow]
  /\ now = 0
  /\ toast = ""
  /\ event = Event("mount", NoFile, 0)

Init == LibIdle /\ AppInit /\ UiIdle

\* The steps of the screen, with the calls in flight limited to `slots`.
AppNext(slots) ==
  \/ DatabaseOpened
  \/ WorkspacesLoaded
  \/ \E selectedFile \in Files \cup {NoFile} : OnFileChange(selectedFile, slots)
  \/ \E k \in DOMAIN workspaces : OpenWorkspace(k, slots)
  \/ \E i \in FlowIds :
       \/ FileRead(i)
       \/ SavePut(i)
       \/ SaveGetAll(i)
       \/ LoadChunks(i)
       \/ LoadEmbeddings(i)
       \/ TextExtracted(i)
       \/ Embedded(i)
       \/ ChunksPut(i)
       \/ EmbeddingsPut(i)
  \/ Reload

\* One call of onFileChange or openWorkspace at a time.
Next == AppNext({1})

Spec == Init /\ [][Next]_vars

\* Every pending promise settles and its continuation runs; the user may
\* do nothing.
SpecStartup ==
  /\ Spec
  /\ WF_vars(DatabaseOpened)
  /\ WF_vars(WorkspacesLoaded)
  /\ \A i \in FlowIds :
       /\ WF_vars(FileRead(i))
       /\ WF_vars(SavePut(i))
       /\ WF_vars(SaveGetAll(i))
       /\ WF_vars(LoadChunks(i))
       /\ WF_vars(LoadEmbeddings(i))
       /\ WF_vars(TextExtracted(i))
       /\ WF_vars(Embedded(i))
       /\ WF_vars(ChunksPut(i))
       /\ WF_vars(EmbeddingsPut(i))

\* A session in which one file is ingested and questions are asked.
AskNext ==
  \/ DatabaseOpened
  \/ WorkspacesLoaded
  \/ \E selectedFile \in Files \cup {NoFile} : now = 0 /\ OnFileChange(selectedFile, {1})
  \/ \E i \in FlowIds :
       \/ FileRead(i)
       \/ SavePut(i)
       \/ SaveGetAll(i)
       \/ LoadChunks(i)
       \/ LoadEmbeddings(i)
       \/ TextExtracted(i)
       \/ Embedded(i)
       \/ ChunksPut(i)
       \/ EmbeddingsPut(i)
  \/ \E question \in Questions : AskQuestion(question)
  \/ QuestionEmbedded
  \/ Answered

SpecAsk == Init /\ [][AskNext]_vars

\* Two readable files of different names.
ConcurrentFiles ==
  { [selected |-> TRUE, name |-> "a.pdf", size |-> 1, content |-> "text"],
    [selected |-> TRUE, name |-> "b.pdf", size |-> 2, content |-> "other"] }

\* The calls started in a session of overlapping calls.
MaxConcurrentTime == 2

\* The file input and the workspaces pane stay on screen while a call is in
\* flight (only the viewer gives way to the spinner), so a second call of
\* onFileChange or openWorkspace can start before the first has ended.
ConcurrentNext ==
  \/ DatabaseOpened
  \/ WorkspacesLoaded
  \/ now < MaxConcurrentTime
       /\ \E selectedFile \in ConcurrentFiles : OnFileChange(selectedFile, FlowIds)
  \/ now < MaxConcurrentTime
       /\ \E k \in DOMAIN workspaces : OpenWorkspace(k, FlowIds)
  \/ \E i \in FlowIds :
       \/ FileRead(i)
       \/ SavePut(i)
       \/ SaveGetAll(i)
       \/ LoadChunks(i)
       \/ LoadEmbeddings(i)
       \/ TextExtracted(i)
       \/ Embedded(i)
       \/ ChunksPut(i)
       \/ EmbeddingsPut(i)

SpecConcurrent == Init /\ [][ConcurrentNext]_vars

\* The calls of onFileChange and openWorkspace in a session of note taking.
MaxNotesTime == 2

\* A session of ingesting, opening, asking and note taking; the editor is
\* mounted and unmounted with the viewer.
NotesNext ==
  \/ EditorInSync /\ DatabaseOpened
  \/ EditorInSync /\ WorkspacesLoaded
  \/ EditorInSync /\ now < MaxNotesTime
       /\ \E selectedFile \in Files : OnFileChange(selectedFile, {1})
  \/ EditorInSync /\ now < MaxNotesTime
       /\ \E k \in DOMAIN workspaces : OpenWorkspace(k, {1})
  \/ EditorInSync /\ \E i \in FlowIds :
       \/ FileRead(i)
       \/ SavePut(i)
       \/ SaveGetAll(i)
       \/ LoadChunks(i)
       \/ LoadEmbeddings(i)
       \/ TextExtracted(i)
       \/ Embedded(i)
       \/ ChunksPut(i)
       \/ EmbeddingsPut(i)
  \/ EditorInSync /\ \E question \in Questions : AskQuestion(question)
  \/ EditorInSync /\ QuestionEmbedded
  \/ EditorInSync /\ Answered
  \/ EditorMounted
  \/ EditorUnmounted
  \/ EditorInSync /\ \E key \in EditorKeys : EditorTyped(key)

SpecNotes == Init /\ [][NotesNext]_vars

\* The screen until it is unmounted; the page may then be loaded again.
UrlNext ==
  \/ objectUrls.mounted /\ Next
  \/ AppUnmount
  \/ ~objectUrls.mounted /\ Reload

SpecUrl == Init /\ [][UrlNext]_vars

SpecViewer == Init /\ [][ViewerNext]_vars

SpecDialog == Init /\ [][DialogNext]_vars

\* A session in which one file is ingested and, once its document is on
\* screen, questions are asked through the dialog of the viewer.  The
\* vectors of the embedding service all have one dimension and none is
\* zero, so cosineSimilarity does not throw and askQuestion never rejects.
SubmitNext ==
  \/ ~mounted /\ DatabaseOpened
  \/ ~mounted /\ WorkspacesLoaded
  \/ ~mounted /\ now = 0
       /\ \E selectedFile \in Files : OnFileChange(selectedFile, {1})
  \/ ~mounted /\ \E i \in FlowIds :
       \/ FileRead(i)
       \/ SavePut(i)
       \/ SaveGetAll(i)
       \/ LoadChunks(i)
       \/ LoadEmbeddings(i)
       \/ TextExtracted(i)
       \/ Embedded(i)
       \/ ChunksPut(i)
       \/ EmbeddingsPut(i)
  \/ Render = "workspace" /\ (\A i \in FlowIds : flows[i].pc \in {"idle", "done"})
       /\ startup \in {"done", "threw"} /\ Mount("paper")
  \/ \E text \in SelectableTexts : TextSelected(text)
  \/ HandleAskQuestion
  \/ \E text \in TypedQuestions : QuestionTyped(text)
  \/ DialogClosed
  \/ Trim(dialog.question) = <<>> /\ HandleSubmit
  \/ SubmitAsked
  \/ QuestionEmbedded
  \/ Answered
  \/ AskFulfilled /\ SubmitResolved

SpecSubmit == Init /\ [][SubmitNext]_vars

\* The pagination control, rendered from a page count and a current page.
PageCounts == {JsUndefined} \cup {Defined(n) : n \in 1..MaxPages}

PaginationInit ==
  /\ libArgs \in [numPages : PageCounts, currentPage : 1..(MaxPages + 1)]
  /\ libPc = "start"
  /\ libResult = NoResult
  /\ libEmbedCalls = 0
  /\ libReply = [defined |-> FALSE, pending |-> TRUE]
  /\ AppInit
  /\ UiIdle

RenderPaginationItemsCall ==
  /\ libPc = "start"
  /\ libPc' = "done"
  /\ libResult' = Returned(RenderPaginationItems(
                     [initialState EXCEPT !.numPages = libArgs.numPages,
                                          !.currentPage = libArgs.currentPage]))
  /\ UNCHANGED <<libArgs, libEmbedCalls, libReply, appVars, uiVars>>

PaginationNext == RenderPaginationItemsCall

SpecPagination == PaginationInit /\ [][PaginationNext]_vars

(***************************************************************************)
(* src/components/pdf.ts: parseOutline.  The page lookups of sibling nodes *)
(* are in flight together and resolve in any order.                        *)
(***************************************************************************)
\* The top-level entries of the outlines parseOutline is given.
MaxOutlineLen == 2

NoDest == [defined |-> FALSE, index |-> 0]
Dest(index) == [defined |-> TRUE, index |-> index]

\* Nodes without entries below them.
OutlineLeafA == [title |-> "a", dest |-> Dest(1), items |-> <<>>]
OutlineLeafB == [title |-> "b", dest |-> NoDest, items |-> <<>>]

OutlineNodes ==
  [title : {"A", "B"},
   dest  : {NoDest, Dest(0), Dest(2)},
   items : {<<>>, <<OutlineLeafA>>, <<OutlineLeafA, OutlineLeafB>>}]

\* What pdf.getOutline() resolves to: the tree of the document, and for a
\* document without an outline either an empty array or null (the Content
\* component tests `if (!outline)` on it).
NullOutline == [isNull |-> TRUE, items |-> <<>>]
OutlineOf(items) == [isNull |-> FALSE, items |-> items]

Outlines ==
  {NullOutline} \cup
  {OutlineOf(items) : items \in UNION {[1..n -> OutlineNodes] : n \in 0..MaxOutlineLen}}

\* A plausible slip: the page index is taken as the page number.
PageNumberZeroBased(item) ==
  IF item.dest.defined THEN item.dest.index ELSE 1

\* item.dest ? (await pdf.getPageIndex(item.dest[0])) + 1 : 1
PageNumber(item) ==
  IF item.dest.defined THEN item.dest.index + 1 ELSE 1

\* The nodes of the tree, by their place: <<i>> and <<i, j>>.
OutlinePaths(items) ==
  {<<i>> : i \in DOMAIN items} \cup
  UNION {{<<i, j>> : j \in DOMAIN items[i].items} : i \in DOMAIN items}

OutlineAt(items, path) ==
  IF Len(path) = 1 THEN items[path[1]] ELSE items[path[1]].items[path[2]]

\* The getPageIndex calls in flight: of the nodes with a target whose
\* processOutlineItem has started, which for a nested node is after the
\* lookup of the node above it.
PendingLookups(items, completed) ==
  {path \in OutlinePaths(items) :
     /\ OutlineAt(items, path).dest.defined
     /\ \A k \in DOMAIN completed : completed[k] # path
     /\ Len(path) = 2 =>
          \/ ~items[path[1]].dest.defined
          \/ \E k \in DOMAIN completed : completed[k] = <<path[1]>>}

LookupsLeft(items, completed) ==
  {path \in OutlinePaths(items) :
     /\ OutlineAt(items, path).dest.defined
     /\ \A k \in DOMAIN completed : completed[k] # path}

\* Promise.all(items.map(processOutlineItem)): the results by position.
ProcessOutlineItems(items) ==
  [i \in DOMAIN items |->
     [title      |-> items[i].title,
      pageNumber |-> PageNumber(items[i]),
      items      |-> [j \in DOMAIN items[i].items |->
                        [title      |-> items[i].items[j].title,
                         pageNumber |-> PageNumber(items[i].items[j]),
                         items      |-> <<>>]]]]

OutlineInit ==
  /\ libArgs \in [outline : Outlines]
  /\ libPc = "start"
  /\ libResult = NoResult
  /\ libEmbedCalls = 0
  /\ libReply = [completed |-> <<>>]
  /\ AppInit
  /\ UiIdle

\* pdf.getOutline() resolves: outline.length of null throws, an empty array
\* gives undefined, else every top-level processOutlineItem starts.
OutlineFetched ==
  /\ libPc = "start"
  /\ IF libArgs.outline.isNull
       THEN /\ libPc' = "done"
            /\ libResult' = Thrown("TypeError")
       ELSE IF Len(libArgs.outline.items) = 0
         THEN /\ libPc' = "done"
              /\ libResult' = Returned(JsUndefined)
         ELSE /\ libPc' = "lookups"
              /\ UNCHANGED libResult
  /\ UNCHANGED <<libArgs, libEmbedCalls, libReply, appVars, uiVars>>

\* One pdf.getPageIndex call resolves.
PageIndexResolved(path) ==
  /\ libPc = "lookups"
  /\ path \in PendingLookups(libArgs.outline.items, libReply.completed)
  /\ libReply' = [libReply EXCEPT !.completed = Append(@, path)]
  /\ UNCHANGED <<libArgs, libPc, libResult, libEmbedCalls, appVars, uiVars>>

\* Every lookup has resolved: the outer Promise.all resolves.
OutlineProcessed ==
  /\ libPc = "lookups"
  /\ LookupsLeft(libArgs.outline.items, libReply.completed) = {}
  /\ libPc' = "done"
  /\ libResult' = Returned(Defined(ProcessOutlineItems(libArgs.outline.items)))
  /\ UNCHANGED <<libArgs, libEmbedCalls, libReply, appVars, uiVars>>

OutlineNext ==
  \/ OutlineFetched
  \/ \E path \in {<<i>> : i \in 1..MaxOutlineLen}
                 \cup {<<i, j>> : i \in 1..MaxOutlineLen, j \in 1..2} :
       PageIndexResolved(path)
  \/ OutlineProcessed

SpecOutline == OutlineInit /\ [][OutlineNext]_vars

(***************************************************************************)
(* The harness of the helper functions: the inputs are drawn in the        *)
(* initial state and the call is applied to them.                          *)
(***************************************************************************)
NoReply == [defined |-> FALSE, pending |-> TRUE]

Alphabet == {"a", "b"}

Texts == UNION {[1..n -> Alphabet] : n \in 0..MaxTextLen}

ChunkInit ==
  /\ libArgs \in [text : Texts, chunkSize : 1..MaxChunkSize]
  /\ libPc = "start"
  /\ libResult = NoResult
  /\ libEmbedCalls = 0
  /\ libReply = NoReply
  /\ AppInit
  /\ UiIdle

ChunkTextCall ==
  /\ libPc = "start"
  /\ libPc' = "done"
  /\ libResult' = Returned(ChunkText(libArgs.text, libArgs.chunkSize))
  /\ UNCHANGED <<libArgs, libEmbedCalls, libReply, appVars, uiVars>>

ChunkNext == ChunkTextCall

SpecChunk == ChunkInit /\ [][ChunkNext]_vars

Components == {-1, 0, 1}

Vectors == UNION {[1..n -> Components] : n \in 0..MaxDim}

CosInit ==
  /\ libArgs \in [vecA : Vectors, vecB : Vectors]
  /\ libPc = "start"
  /\ libResult = NoResult
  /\ libEmbedCalls = 0
  /\ libReply = NoReply
  /\ AppInit
  /\ UiIdle

CosineSimilarityCall ==
  /\ libPc = "start"
  /\ libPc' = "done"
  /\ libResult' = CosineSimilarity(libArgs.vecA, libArgs.vecB)
  /\ UNCHANGED <<libArgs, libEmbedCalls, libReply, appVars, uiVars>>

CosNext == CosineSimilarityCall

SpecCos == CosInit /\ [][CosNext]_vars

RelVectors == {<<1, 0>>, <<0, 1>>, <<1, 1>>, <<-1, 0>>, <<0, 0>>, <<1>>}

EmbeddingLists == UNION {[1..n -> RelVectors] : n \in 0..MaxEmbeddings}

\* Chunk i of the harness is the text of i "a"s.
HarnessChunks(n) == [i \in 1..n |-> [j \in 1..i |-> "a"]]

QuestionEmbeddings ==
  {EmbedFailed, EmbedOk(<<>>)} \cup {EmbedOk(<<q>>) : q \in {<<1, 0>>, <<1, 1>>, <<0, 0>>}}

RelInit ==
  /\ libArgs \in [question : {<<>>, <<"a">>}, topK : (-1)..MaxTopK,
                  embeddings : EmbeddingLists,
                  chunks : {HarnessChunks(n) : n \in 0..(MaxEmbeddings + 1)}]
  /\ Len(libArgs.chunks) - Len(libArgs.embeddings) \in {-1, 0, 1}
  /\ libPc = "start"
  /\ libResult = NoResult
  /\ libEmbedCalls = 0
  /\ libReply = NoReply
  /\ AppInit
  /\ UiIdle

\* A plausible slip: no early return, the request is issued in any case.
RelevantChunksCallAlways ==
  /\ libPc = "start"
  /\ libPc' = "awaitEmbed"
  /\ libEmbedCalls' = libEmbedCalls + 1
  /\ UNCHANGED <<libArgs, libResult, libReply, appVars, uiVars>>

\* relevantChunks up to its first await.
RelevantChunksCall ==
  /\ libPc = "start"
  /\ IF Len(libArgs.embeddings) = 0
       THEN /\ libPc' = "done"
            /\ libResult' = Returned(<<>>)
            /\ UNCHANGED libEmbedCalls
       ELSE /\ libPc' = "awaitEmbed"
            /\ libEmbedCalls' = libEmbedCalls + 1
            /\ UNCHANGED libResult
  /\ UNCHANGED <<libArgs, libReply, appVars, uiVars>>

\* ai.embed([question]) resolves and relevantChunks runs to its end.
RelevantChunksResume ==
  /\ libPc = "awaitEmbed"
  /\ \E questionEmbedding \in QuestionEmbeddings :
       /\ libReply' = questionEmbedding
       /\ libResult' = RelevantChunksRanked(questionEmbedding, libArgs.topK,
                                            libArgs.embeddings, libArgs.chunks)
  /\ libPc' = "done"
  /\ UNCHANGED <<libArgs, libEmbedCalls, appVars, uiVars>>

RelNext == RelevantChunksCall \/ RelevantChunksResume

SpecRel == RelInit /\ [][RelNext]_vars

(***************************************************************************)
(* The claims about the helper functions.                                  *)
(***************************************************************************)
RECURSIVE Concat(_)
Concat(ss) == IF ss = <<>> THEN <<>> ELSE Head(ss) \o Concat(Tail(ss))

\* C1: chunkText(text, chunkSize), chunkSize >= 1, returns exactly
\* ceil(length(text)/chunkSize) chunks (the least n with n*chunkSize >=
\* length), every chunk but the last has length chunkSize, the last is
\* non-empty and holds the remainder, and the chunks concatenate to text.
C1_ChunkTextContract ==
  libPc = "done" =>
    LET text == libArgs.text
        size == libArgs.chunkSize
        out  == libResult.value
        n    == Len(out)
    IN  /\ libResult.kind = "ok"
        /\ n * size >= Len(text)
        /\ (n - 1) * size < Len(text) \/ (n = 0 /\ Len(text) = 0)
        /\ \A i \in 1..(n - 1) : Len(out[i]) = size
        /\ n > 0 => /\ Len(out[n]) >= 1
                    /\ Len(out[n]) = Len(text) - (n - 1) * size
        /\ Concat(out) = text

C1_Witness ==
  /\ libPc = "done"
  /\ Len(libArgs.text) = 4
  /\ libArgs.chunkSize = 3
  /\ libResult = Returned(<<SubSeq(libArgs.text, 1, 3), SubSeq(libArgs.text, 4, 4)>>)


ZeroMagnitude(vec) == \A i \in 1..Len(vec) : vec[i] = 0

\* C4: cosineSimilarity(a, b) ends in an error, returning no number, when
\* the lengths differ and when either vector has zero magnitude (two empty
\* vectors included); in every other case it returns a number.
C4_CosineErrors ==
  libPc = "done" =>
    LET a == libArgs.vecA
        b == libArgs.vecB
    IN  IF Len(a) # Len(b) \/ ZeroMagnitude(a) \/ ZeroMagnitude(b)
          THEN libResult.kind = "error"
          ELSE /\ libResult.kind = "ok"
               /\ libResult.value.num \in Int
               /\ libResult.value.denSq > 0

C4_Witness ==
  /\ libPc = "done"
  /\ libArgs.vecA = <<>>
  /\ libArgs.vecB = <<>>
  /\ libResult.kind = "error"

\* The similarity of stored embedding i (0-based) to the question's.
QuestionVector == libReply.value[1]

SimilarityOf(i) == CosineSimilarity(QuestionVector, libArgs.embeddings[i + 1]).value

\* Index i ranks before index j: a higher similarity, or the same and i < j.
RanksBefore(i, j) ==
  LET d == SimilarityDiffSign(SimilarityOf(i), SimilarityOf(j))
  IN  d = 1 \/ (d = 0 /\ i < j)

\* The result holds min(topK, n) texts, those of the top-ranked indices in
\* rank order, each read from chunks at its index.
ReturnsTopRanked ==
  LET n   == Len(libArgs.embeddings)
      m   == Min(libArgs.topK, n)
      out == libResult.value
  IN  /\ libResult.kind = "ok"
      /\ Len(out) = m
      /\ \E sel \in [1..m -> 0..(n - 1)] :
           /\ \A k \in 1..m : out[k] = ChunkAt(libArgs.chunks, sel[k])
           /\ \A k, l \in 1..m : k < l => RanksBefore(sel[k], sel[l])
           /\ \A j \in 0..(n - 1) :
                (\A k \in 1..m : sel[k] # j) =>
                   \A k \in 1..m : RanksBefore(sel[k], j)

QuestionEmbeddingObtained ==
  /\ libPc = "done"
  /\ libReply.defined
  /\ Len(libReply.value) > 0

SimilaritiesDefined ==
  \A i \in 1..Len(libArgs.embeddings) :
    /\ Len(libArgs.embeddings[i]) = Len(QuestionVector)
    /\ ~ZeroMagnitude(libArgs.embeddings[i])
    /\ ~ZeroMagnitude(QuestionVector)

\* C2 (as claimed): whenever the question embedding is obtained and
\* embeddings is non-empty, relevantChunks returns the min(topK, n) top-ranked
\* chunk texts.
C2_Original ==
  (QuestionEmbeddingObtained /\ Len(libArgs.embeddings) > 0) => ReturnsTopRanked

\* C2 (amended): when the question embedding is obtained, embeddings is
\* non-empty, topK >= 0 and every stored embedding has the length of the
\* question's embedding with neither of zero magnitude, relevantChunks
\* returns exactly min(topK, n) chunk texts: those at the indices of highest
\* similarity, in non-increasing similarity, equal similarities in ascending
\* index order, each read from chunks at the selected index.
C2_TopRanked ==
  (/\ QuestionEmbeddingObtained
   /\ Len(libArgs.embeddings) > 0
   /\ libArgs.topK >= 0
   /\ SimilaritiesDefined) => ReturnsTopRanked

C2_Witness ==
  /\ libPc = "done"
  /\ libArgs.embeddings = <<(<<1, 0>>), (<<0, 1>>), (<<1, 1>>)>>
  /\ libArgs.chunks = HarnessChunks(3)
  /\ libArgs.topK = 2
  /\ libReply = EmbedOk(<< <<1, 0>> >>)
  /\ libResult = Returned(<<HarnessChunks(3)[1], HarnessChunks(3)[3]>>)

\* C3: relevantChunks called with an empty embeddings list returns the
\* empty list and never issues an embedding request, whatever the question,
\* topK and chunks.
C3_EmptyEmbeddings ==
  Len(libArgs.embeddings) = 0 =>
    /\ libEmbedCalls = 0
    /\ libPc # "awaitEmbed"
    /\ libPc = "done" => libResult = Returned(<<>>)

C3_Witness ==
  /\ libPc = "done"
  /\ Len(libArgs.embeddings) = 0
  /\ Len(libArgs.chunks) = 1
  /\ libArgs.topK = 2
  /\ libResult = Returned(<<>>)

(***************************************************************************)
(* The claims about the workspace management screen.                       *)
(***************************************************************************)
TextChunks == ChunkText(<<"a", "b">>, DefaultChunkSize)

\* The values of the records of the 'workspaces' store.
StoredWorkspaces == {e.value : e \in workspacesStore}

\* No call of onFileChange or openWorkspace has started since the mount.
NoCallYet == \A i \in FlowIds : flows[i].pc = "idle"

\* The step just taken was onFileChange on a file of this size range.
PickedFile == event'.op = "onFileChange" /\ event'.file.selected

\* C5: onFileChange accepts a file of exactly 104,857,600 bytes and rejects
\* every larger file with a validation notification; a rejection writes no
\* Workspace record and leaves the displayed document, the in-memory chunks
\* and embeddings and the loading flag as they were.
C5_SizeLimit ==
  [][PickedFile =>
       /\ event'.file.size > 104857600 =>
            /\ toast' = "Maximum file size is 100 MB"
            /\ UNCHANGED <<workspacesStore, chunksStore, embeddingsStore, workspaces,
                           fileUrl, chunks, embeddings, isLoading, flows>>
       /\ (event'.file.size <= 104857600 /\ db) =>
            /\ toast' = ""
            /\ isLoading'
            /\ \E i \in FlowIds :
                 /\ flows'[i].pc = "read"
                 /\ flows'[i].kind = "ingest"
                 /\ flows'[i].name = event'.file.name
                 /\ flows'[i].size = event'.file.size
                 /\ flows'[i].content = event'.file.content
                 /\ flows[i].pc # "read"]_vars

\* A file of the maximum size was ingested, and a larger one has just been
\* rejected.
C5_Witness ==
  /\ event.op = "onFileChange"
  /\ event.file.size = 104857601
  /\ toast = "Maximum file size is 100 MB"
  /\ \E w \in StoredWorkspaces : w.size = 104857600

\* C6: the workspaces collection holds at most one Workspace record per
\* name (the record is stored under its name), and when onFileChange saves
\* the record of a file, the record under the file's name is the new one
\* alone: the content and size of the new file, empty notes.
OneRecordPerName ==
  \A e1, e2 \in workspacesStore :
    /\ e1.key = e1.value.name
    /\ e1.value.name = e2.value.name => e1 = e2

IngestSaved(i) ==
  /\ event'.op = "savePut"
  /\ event'.n = i
  /\ flows[i].kind = "ingest"
  /\ flows[i].pc = "savePut"
  /\ flows'[i].pc = "saveGetAll"

C6_OneRecordPerName ==
  /\ []OneRecordPerName
  /\ [][\A i \in FlowIds : IngestSaved(i) =>
          \E w \in StoredWorkspaces' :
            /\ {x \in StoredWorkspaces' : x.name = flows[i].name} = {w}
            /\ w.content = flows[i].content
            /\ w.size = flows[i].size
            /\ w.notes = <<>>]_vars

\* a.pdf was ingested with a text, then again with other bytes: the record
\* under a.pdf is the second file's.
C6_Witness ==
  /\ \E c \in chunksStore : c.key = "a.pdf" /\ c.value = TextChunks
  /\ \E w \in StoredWorkspaces :
       /\ w.name = "a.pdf"
       /\ w.content = "scan"
       /\ w.size = 104857600
       /\ w.notes = <<>>
  /\ event.op = "savePut"

IndexLookedUp(i) ==
  /\ event'.op = "loadEmbeddings"
  /\ event'.n = i
  /\ flows[i].kind = "ingest"

\* index of the ingestion i has just gone past extractText.
ExtractReturned(i) ==
  /\ event'.op = "textExtracted"
  /\ event'.n = i

IndexStored(name) ==
  DbGet(chunksStore, name).defined /\ StoredEmbeddings(name).defined

PipelineOnce ==
  \A i \in FlowIds :
    flows[i].kind = "ingest" =>
      /\ flows[i].indexRuns <= 1
      /\ flows[i].embedRequests <= flows[i].indexRuns
      /\ flows[i].indexLoaded => flows[i].indexRuns = 0
      /\ (flows[i].pc = "done" /\ ~flows[i].indexLoaded) => flows[i].indexRuns = 1
      /\ (flows[i].pc = "done" /\ flows[i].embedRequests = 0 /\ ~flows[i].indexLoaded)
           => flows[i].threw
      /\ flows[i].pc \in {"embed", "putChunks", "putEmbeddings"} =>
           /\ flows[i].embedRequests = 1
           /\ flows[i].requestInput = flows[i].chunks
           /\ flows[i].requestInput =
                ChunkText(ExtractText(flows[i].content).value, DefaultChunkSize)

C8_Original ==
  \A i \in FlowIds :
    (flows[i].kind = "open" /\ flows[i].pc = "done") =>
      /\ flows[i].indexRuns = 0
      /\ flows[i].embedRequests = 0
      /\ ~flows[i].indexLoaded => (chunks = <<>> /\ embeddings = <<>>)

\* The startup load is over and no call has been made since.
StartupOver == startup \in {"done", "threw"} /\ NoCallYet

IsMostRecent(w) ==
  /\ w \in StoredWorkspaces
  /\ \A other \in StoredWorkspaces : other.lastOpened <= w.lastOpened

StartupStep == event'.op \in {"databaseOpened", "workspacesLoaded"}

\* C9: when at least one Workspace record is persisted, the document
\* displayed once the startup load is over is the content of the record with
\* the maximum lastOpened; the startup load leaves the in-memory chunks and
\* embeddings empty, the stored index unread and starts no call.
C9_StartupMostRecent ==
  /\ [](StartupOver /\ workspacesStore # {} =>
          /\ startup = "done"
          /\ fileUrl.defined
          /\ \E w \in StoredWorkspaces : IsMostRecent(w) /\ fileUrl.content = w.content
          /\ chunks = <<>>
          /\ embeddings = <<>>)
  /\ [][StartupStep => UNCHANGED <<chunks, embeddings, flows, storeVars>>]_vars

\* Two workspaces are persisted, a.pdf with a stored index and opened last;
\* a new session displays a.pdf with no index in memory.
C9_Witness ==
  /\ StartupOver
  /\ event.op = "workspacesLoaded"
  /\ Cardinality(workspacesStore) = 2
  /\ \E w \in StoredWorkspaces :
       /\ w.name = "a.pdf"
       /\ IsMostRecent(w)
       /\ fileUrl.content = w.content
       /\ IndexStored(w.name)
  /\ chunks = <<>>

\* C10: once the database has opened and the stored workspaces were read,
\* the loading flag eventually becomes false, whatever the number of
\* persisted workspaces; with none, no document is displayed and the
\* empty-state message is rendered.
C10_Original ==
  /\ (startup = "getAll") ~> ~isLoading
  /\ [](StartupOver /\ workspacesStore = {} =>
          ~fileUrl.defined /\ Render = "empty")

(***************************************************************************)
(* The claims about askQuestion, the viewer and the question dialog.       *)
(***************************************************************************)
AnswerArrived == event'.op = "answered"

OutlinePanelShown == state.outline.defined /\ Len(state.outline.value) # 0

KeyPressed(key) ==
  /\ viewerEvent'.op = "keyDown"
  /\ viewerEvent'.key = key
  /\ ~viewerEvent'.ctrlKey

\* C12: starting from scale 1.0, after any sequence of key actions the zoom
\* scale stays within [0.5, 2.0]: '+' adds 0.1 capped at 2.0, '-' subtracts
\* 0.1 floored at 0.5 and '0' sets the scale to exactly 1.0 (scales in
\* tenths).
C12_ZoomBounds ==
  /\ [](state.scale >= 5 /\ state.scale <= 20)
  /\ [][/\ KeyPressed("+") =>
             state'.scale = (IF state.scale + 1 > 20 THEN 20 ELSE state.scale + 1)
        /\ KeyPressed("-") =>
             state'.scale = (IF state.scale - 1 < 5 THEN 5 ELSE state.scale - 1)
        /\ KeyPressed("0") => state'.scale = 10]_vars

\* '+' has been pressed at the ceiling.
C12_Witness ==
  /\ mounted
  /\ viewerEvent = ViewerEvent("keyDown", "+", FALSE)
  /\ state.scale = 20

DocumentChanged == viewerEvent'.op \in {"mount", "fileChanged"}

\* C14: every change of the displayed document reference resets the viewer
\* state: the current page becomes 1, the zoom scale 1.0, the selected text
\* empty, the page count unknown, and the remount counter increases by 1
\* (from 0 when the viewer is mounted on its first document).
C14_ResetOnFileChange ==
  [][DocumentChanged =>
       /\ state'.currentPage = 1
       /\ state'.scale = 10
       /\ state'.selectedText = <<>>
       /\ ~state'.numPages.defined
       /\ state'.key = (IF viewerEvent'.op = "mount" THEN 0 ELSE state.key) + 1
       /\ docLoad' = viewerFile']_vars

\* The reference has changed twice under the mounted viewer, the last time
\* away from the book, whose outline had been loaded.
C14_Witness ==
  /\ viewerEvent.op = "fileChanged"
  /\ viewerFile = "paper"
  /\ state.key = 3
  /\ state.outline.defined
  /\ state.currentPage = 1
  /\ state.scale = 10

\* C15: once a document with no outline entries has loaded (its
\* parseOutline has resolved and no other is pending) the viewer holds no
\* outline and the layout has no outline panel, whichever documents were
\* displayed before.
C15_Original ==
  (/\ mounted
   /\ Len(DocOutline(viewerFile)) = 0
   /\ docLoad = ""
   /\ parsing = {}) => (~state.outline.defined /\ ~OutlinePanelShown)

IsLink(item) == item.kind = "link"

\* C13: for every page count n >= 1 and current page c with 1 <= c <= n the
\* pagination control shows exactly min(5, n) consecutive page links, the
\* window contains c, a leading ellipsis is shown exactly when the window
\* does not start at page 1 and a trailing one exactly when it does not end
\* at page n.
C13_PaginationWindow ==
  (/\ libPc = "done"
   /\ libArgs.numPages.defined
   /\ libArgs.currentPage <= libArgs.numPages.value) =>
    LET n     == libArgs.numPages.value
        c     == libArgs.currentPage
        items == libResult.value.value
        links == SelectSeq(items, IsLink)
        m     == Len(links)
        lead  == IF links[1].page # 1 THEN 1 ELSE 0
        trail == IF links[m].page # n THEN 1 ELSE 0
    IN  /\ libResult.value.defined
        /\ m = (IF n < 5 THEN n ELSE 5)
        /\ \A k \in 1..(m - 1) : links[k + 1].page = links[k].page + 1
        /\ \E k \in 1..m : links[k].page = c
        /\ Len(items) = lead + m + trail
        /\ \A k \in 1..Len(items) :
             (items[k].kind = "ellipsis") <=>
               ((k = 1 /\ lead = 1) \/ (k = Len(items) /\ trail = 1))

\* Page 4 of 7: links 2 to 6 between two ellipses.
C13_Witness ==
  /\ libPc = "done"
  /\ libArgs.numPages = Defined(7)
  /\ libArgs.currentPage = 4
  /\ libResult.value.value =
       <<Ellipsis, PageLink(2), PageLink(3), PageLink(4), PageLink(5), PageLink(6),
         Ellipsis>>


\* C16: in the question dialog, when the submit callback completes the typed
\* question is cleared and the dialog is closed; when it fails the dialog
\* stays as open as it was, the typed question is unchanged and an error
\* notification is shown; in both cases the in-flight flag is false after.
C16_DialogSubmit ==
  [][ /\ (dialog.pc = "awaitSubmit" /\ dialog'.event = "submitResolved"
            => /\ dialog'.question = <<>>
               /\ dialog'.isQuestionDialogOpen = FALSE
               /\ dialog'.isLoading = FALSE)
      /\ (dialog.pc = "awaitSubmit" /\ dialog'.event = "submitRejected"
            => /\ dialog'.isQuestionDialogOpen = dialog.isQuestionDialogOpen
               /\ dialog'.question = dialog.question
               /\ dialog'.toast.defined
               /\ dialog'.toast.value.message = "Failed to ask question: "
               /\ dialog'.isLoading = FALSE) ]_vars

\* A submit has completed while the notification of an earlier failed one
\* was still shown.
C16_Witness ==
  /\ dialog.event = "submitResolved"
  /\ dialog.toast.defined
  /\ dialog.q # <<>>
  /\ dialog.question = <<>>
  /\ ~dialog.isQuestionDialogOpen
  /\ ~dialog.isLoading

\* A submit has failed with the dialog open and a question typed.
C16_FailureReached ==
  /\ dialog.event = "submitRejected"
  /\ dialog.isQuestionDialogOpen
  /\ dialog.question # <<>>
  /\ dialog.toast.defined


\* No call of onFileChange or openWorkspace is in flight.
FlowsSettled == \A i \in FlowIds : flows[i].pc \in {"idle", "done"}

\* C17: after any sequence of ingestions and opens, including ones where the
\* embedding request or a persistence write fails, every name with a
\* persisted chunk list has a persisted embedding list of the same length.
C17_Original ==
  FlowsSettled =>
    \A c \in chunksStore :
      \E e \in embeddingsStore :
        /\ e.key = c.key
        /\ e.value.defined
        /\ Len(e.value.value) = Len(c.value)


\* The call that ended by throwing is the first that got past its first
\* await: before it started nothing was displayed (fileUrl is set only from
\* a saved record or by a call) and no record was persisted.
FirstCallThrew ==
  /\ now = 1
  /\ \E i \in FlowIds : flows[i].pc = "done" /\ flows[i].threw

\* C18: when any step of an ingest, open or ask flow throws, the application
\* state after the flow (displayed document, in-memory chunks and
\* embeddings, notes, persisted records) equals the state before the flow
\* started.  Stated for the first call of a visit, whose state before is the
\* state after construction.
C18_Original ==
  FirstCallThrew =>
    /\ fileUrl = NoUrl
    /\ chunks = <<>>
    /\ embeddings = <<>>
    /\ notes = <<>>
    /\ workspacesStore = {}
    /\ chunksStore = {}
    /\ embeddingsStore = {}


\* C19: within one run of the indexing pipeline, text extraction completes
\* before chunking, chunking completes before the embedding request is
\* issued (the request carries the chunks of the extracted text), and the
\* embedding request completes before the chunk list and then the embedding
\* list are persisted under the file's name.
C19_PipelineOrder ==
  [][ /\ \A i \in FlowIds :
           flows'[i].embedRequests > flows[i].embedRequests =>
             /\ flows[i].pc = "extractText"
             /\ ExtractText(flows[i].content).kind = "ok"
             /\ flows'[i].requestInput =
                  ChunkText(ExtractText(flows[i].content).value, DefaultChunkSize)
             /\ flows'[i].chunks = flows'[i].requestInput
             /\ flows'[i].pc = "embed"
      /\ \A i \in FlowIds :
           flows[i].pc = "embed" /\ flows'[i].pc # "embed" =>
             /\ event'.op \in {"embedded", "reload"}
             /\ UNCHANGED storeVars
      /\ chunksStore' # chunksStore =>
           \E i \in FlowIds :
             /\ flows[i].pc = "putChunks"
             /\ flows[i].embedRequests = 1
             /\ flows[i].embeddings \in
                  {EmbedFailed, EmbedOk(EmbedVectors(flows[i].requestInput))}
             /\ [key |-> flows[i].name, value |-> flows[i].requestInput] \in chunksStore'
             /\ embeddingsStore' = embeddingsStore
      /\ embeddingsStore' # embeddingsStore =>
           \E i \in FlowIds :
             /\ flows[i].pc = "putEmbeddings"
             /\ [key |-> flows[i].name, value |-> flows[i].chunks] \in chunksStore
             /\ [key |-> flows[i].name, value |-> flows[i].embeddings] \in embeddingsStore'
             /\ chunksStore' = chunksStore ]_vars

\* A pipeline has run to its end: the chunk list and the embedding list of
\* the file are persisted and index has reported success.
C19_Witness ==
  /\ event.op = "embeddingsPut"
  /\ toast = "Indexed"
  /\ \E i \in FlowIds :
       /\ flows[i].pc = "done"
       /\ flows[i].kind = "ingest"
       /\ flows[i].embedRequests = 1
       /\ \E c \in chunksStore, e \in embeddingsStore :
            /\ c.key = flows[i].name
            /\ e.key = flows[i].name
            /\ e.value.defined
            /\ Len(e.value.value) = Len(c.value)
            /\ Len(c.value) > 0


\* A document is displayed and this step is of a handler that sets fileUrl.
Superseded ==
  /\ objectUrls.held = "live"
  /\ event'.op \in {"workspacesLoaded", "fileRead", "openWorkspace"}

\* C20: across any sequence of file ingestions and workspace opens, every
\* document reference that has been superseded is released, so at most one
\* unreleased reference exists once a change has settled and it is the one
\* displayed, which is never a released one; unmounting the screen releases
\* the last one.
C20_ObjectUrlsReleased ==
  /\ [](objectUrls.mounted =>
          /\ objectUrls.unreleased <= 1
          /\ fileUrl.defined <=> objectUrls.held = "live"
          /\ objectUrls.held = "live" <=> objectUrls.unreleased = 1
          /\ objectUrls.held # "revoked")
  /\ [](~objectUrls.mounted => objectUrls.unreleased = 0)
  /\ [][ /\ Superseded =>
              /\ objectUrls'.held = "live"
              /\ objectUrls'.unreleased = 1
         /\ (objectUrls.mounted /\ ~objectUrls'.mounted) =>
              /\ objectUrls'.unreleased = 0
              /\ objectUrls.held = "live" => objectUrls'.held = "revoked" ]_vars

\* A second document has been displayed over a first and the first URL has
\* been released; later the screen is unmounted.
C20_Witness ==
  /\ ~objectUrls.mounted
  /\ objectUrls.held = "revoked"
  /\ objectUrls.unreleased = 0
  /\ now >= 2
  /\ fileUrl.defined


\* C21: whenever the notes value supplied to the note editor changes (for
\* example an answer is appended), the editor's displayed content becomes
\* equal to the new notes value.
C21_Original ==
  (editor.mounted /\ Render = "workspace") => editor.doc = ParseHTML(notes)


\* The records persisted for the document on screen.
DisplayedRecords ==
  {e.value : e \in {r \in workspacesStore : r.value.content = fileUrl.content}}

\* C22: a change of the notes of the open workspace (a user edit or an
\* appended answer) mutates that workspace's persisted record, so that the
\* stored notes field equals the current notes string afterwards.
C22_Original ==
  (Render = "workspace" /\ FlowsSettled /\ ask.pc \in {"idle", "done"}) =>
    \A workspace \in DisplayedRecords : workspace.notes = notes


\* C23: in every reachable viewer state in which the page count n is known,
\* 1 <= currentPage <= n, after any sequence of next-page, previous-page,
\* pagination-link and outline-item clicks, document loads and document
\* changes.
C23_Original ==
  (mounted /\ state.numPages.defined) =>
    (1 <= state.currentPage /\ state.currentPage <= state.numPages.value)

\* The part of C23 that the handlers keep: next-page at the last page and
\* previous-page at page 1 leave the page unchanged, and next-page while the
\* page count is unknown leaves it unchanged.
PageClamped ==
  [][ /\ viewerEvent'.op = "nextPage" =>
           state'.currentPage =
             (IF state.numPages.defined /\ state.currentPage < state.numPages.value
                THEN state.currentPage + 1
                ELSE IF state.numPages.defined
                  THEN state.numPages.value
                  ELSE state.currentPage)
      /\ viewerEvent'.op = "prevPage" =>
           state'.currentPage = (IF state.currentPage > 1
                                   THEN state.currentPage - 1 ELSE 1) ]_vars


\* C24: in every reachable state of the management screen, including after
\* an embedding request that failed, the in-memory chunk list and embedding
\* list have the same length; stated for the lists a call of askQuestion
\* passes to relevantChunks.
C24_Original ==
  ask.pc # "idle" => Len(ask.chunks) = Len(ask.embeddings)


\* What parseOutline must return for a list of nodes: a list of the same
\* length and order, each pageNumber the target's page index plus 1, or 1
\* without a target.
RECURSIVE OutlineMatches(_, _)
OutlineMatches(output, input) ==
  /\ Len(output) = Len(input)
  /\ \A i \in DOMAIN input :
       /\ output[i].title = input[i].title
       /\ output[i].pageNumber =
            (IF input[i].dest.defined THEN input[i].dest.index + 1 ELSE 1)
       /\ output[i].pageNumber >= 1
       /\ OutlineMatches(output[i].items, input[i].items)

\* C25: parseOutline returns an absent value when the document has zero
\* top-level outline entries; otherwise, for every completion order of the
\* page lookups, the output list at each level has the same length and
\* order as the input nodes and every pageNumber is the target's page index
\* plus 1, or 1 when the node has no target.
C25_Original ==
  libPc = "done" =>
    IF Len(libArgs.outline.items) = 0
      THEN libResult = Returned(JsUndefined)
      ELSE /\ libResult.kind = "ok"
           /\ libResult.value.defined
           /\ OutlineMatches(libResult.value.value, libArgs.outline.items)

\* The part of C25 that holds: what is returned for an outline with entries.
OutlineOrderKept ==
  (libPc = "done" /\ Len(libArgs.outline.items) > 0) =>
    /\ libResult.kind = "ok"
    /\ libResult.value.defined
    /\ OutlineMatches(libResult.value.value, libArgs.outline.items)


\* The name of the workspace whose document is on screen.
DisplayedName ==
  (CHOOSE f \in Files \cup ConcurrentFiles : f.content = fileUrl.content).name

\* The chunks and embeddings in memory are the index stored under `name`.
IndexInMemory(name) ==
  /\ IndexFound(DbGet(chunksStore, name), StoredEmbeddings(name))
  /\ chunks = DbGet(chunksStore, name).value
  /\ embeddings = StoredEmbeddings(name).value

\* Two calls of onFileChange that overlapped have both ended, no step of
\* either having failed: both files are saved and indexed.
OverlappedWithoutFailure ==
  /\ \A i \in FlowIds : flows[i].pc = "done" /\ ~flows[i].threw
  /\ now = 2
  /\ \A name \in {"a.pdf", "b.pdf"} :
       IndexFound(DbGet(chunksStore, name), StoredEmbeddings(name))
  /\ Cardinality(workspacesStore) = 2

\* C26: once every started ingest and open flow has completed, under any
\* interleaving of their steps, the in-memory chunks and embeddings are
\* either empty or the index stored under the name of the workspace whose
\* document is displayed.  Stated for two overlapping ingests without
\* failures.
C26_Original ==
  (FlowsSettled /\ OverlappedWithoutFailure /\ fileUrl.defined) =>
    \/ chunks = <<>> /\ embeddings = <<>>
    \/ IndexInMemory(DisplayedName)



\* The call i of onFileChange ends in this step without having thrown, for
\* a file whose text can be extracted.
IngestEnds(i) ==
  /\ flows[i].kind = "ingest"
  /\ flows[i].pc # "done"
  /\ flows'[i].pc = "done"
  /\ ~flows'[i].threw
  /\ ExtractText(flows[i].content).kind = "ok"

\* C27: after a file is ingested under a name that already has a stored
\* index but with different content, the stored and in-memory chunk list
\* equals the chunking of the text of the newly ingested content.
C27_Original ==
  [][\A i \in FlowIds :
       IngestEnds(i) =>
         LET chunked == ChunkText(ExtractText(flows[i].content).value, DefaultChunkSize)
         IN  /\ chunks' = chunked
             /\ DbGet(chunksStore', flows[i].name) = Defined(chunked)]_vars


\* `part` occurs in `text`.
Contains(text, part) ==
  \E k \in 0..(Len(text) - Len(part)) : SubSeq(text, k + 1, k + Len(part)) = part

\* The user edits the document of the editor in this step.
UserEdits == editor.mounted /\ editor'.mounted /\ editor'.doc # editor.doc

\* C28: a user edit made in the note editor after an answer was appended
\* to the notes does not discard the answer: the notes after the edit
\* still hold the text of the answer.
C28_Original ==
  [][(/\ UserEdits
      /\ ask.pc = "done"
      /\ TruthyString(ask.answer)
      /\ Contains(notes, ask.answer.value))
       => Contains(notes', ask.answer.value)]_vars

\* The call i of onFileChange or openWorkspace ends in this step without
\* having thrown, and its document takes the place of the spinner.
CallEnds(i) ==
  /\ flows[i].kind \in {"ingest", "open"}
  /\ flows[i].pc # "done"
  /\ flows'[i].pc = "done"
  /\ ~flows'[i].threw
  /\ Render # "workspace"
  /\ Render' = "workspace"

\* C29: when a workspace has been opened or a file ingested, the notes
\* shown are the notes stored in the record of that workspace (empty for a
\* new file): the notes of one document do not carry over to the next.
C29_Original ==
  [][\A i \in FlowIds :
       (CallEnds(i) /\ DbGet(workspacesStore', flows[i].name).defined)
         => notes' = DbGet(workspacesStore', flows[i].name).value.notes]_vars


\* The submit of the dialog settles in this step, after the completion
\* request of its question has failed.
SettlesAfterFailedRequest ==
  /\ dialog.pc = "awaitSubmit"
  /\ dialog'.pc = "idle"
  /\ ask.pc = "done"
  /\ ~ask.threw
  /\ ask.question = dialog.q
  /\ ask.answer = AnswerFailed

\* C30: when the remote completion request for a question submitted
\* through the dialog fails, the dialog remains open and the typed question
\* is preserved.
C30_Original ==
  [][SettlesAfterFailedRequest =>
       /\ dialog'.isQuestionDialogOpen = dialog.isQuestionDialogOpen
       /\ dialog'.question = dialog.question]_vars

====
